---- MODULE Spec2Model ----
(***************************************************************************)
(* Model of the agent orchestration pipeline of dexter_vietnam             *)
(* (src/agent/orchestrator.py): the ConversationMemory, the Planner's      *)
(* create_plan and _fallback_plan, the Executor (execute_plan and          *)
(* _execute_step), the Synthesizer (synthesize and _format_results), and   *)
(* AgentOrchestrator: the request lifecycle of chat, chat calls that       *)
(* overlap, and direct_tool_call.                                          *)
(*                                                                         *)
(* Python values are modelled by records that keep what the code can see:  *)
(* a dict is a record plus the set of keys that are present, a value that  *)
(* may be a scalar or a list carries its kind, an exception is the name of *)
(* its class, and a string is the sequence of its characters, a character  *)
(* outside ASCII being written as its code point.  Cooperative scheduling  *)
(* is modelled by one action per stretch of code between two suspension    *)
(* points.                                                                 *)
(***************************************************************************)
EXTENDS Integers, Sequences, FiniteSets, TLC

\* ------------------------------------------------------------------ bounds
\* Longest plan.steps list that is explored with every kind of step.
MaxSteps == 2
\* Longest plan.steps list that is explored with the plain kinds of step.
MaxPlainSteps == 3
\* Largest integer parallel_group key that is explored.
MaxGroup == 2
\* Longest query, in characters, that is explored.
MaxQueryLen == 3
\* Largest max_turns a ConversationMemory used on its own is built with.
MaxBudget == 1
\* Most add_turn calls made on such a memory between two clear calls.
MaxAppends == 4
\* Largest last_n that get_context is called with on such a memory.
MaxLastN == 1
\* Most chat calls made one after the other on an orchestrator.
MaxChats == 2
\* Most words of a query handed to the fallback planner.
MaxWords == 3
\* The results synthesize is called on are at most this many.
MaxResults == 2
\* The rendered payloads explored are within this many characters of the
\* ceiling of _format_results.
MaxSlack == 1

\* ------------------------------------------------------------ plan values
\* params["symbol"]: absent, a scalar, or a list (elems holds the value(s)).
NoSymbol == [kind |-> "none", elems |-> <<>>]
ScalarSymbol == [kind |-> "scalar", elems |-> <<"FPT">>]
ListSymbol == [kind |-> "list", elems |-> <<"FPT", "VNM">>]

\* step["params"]: a mapping (mapping = TRUE) or a value that ** cannot unpack.
EmptyParams == [mapping |-> TRUE, symbol |-> NoSymbol]
BadParams == [mapping |-> FALSE, symbol |-> NoSymbol]

\* Tool names: one registered tool, one name no tool has, and a JSON array in
\* place of the name (an unhashable value for the registry's dict).
KnownTool == "financial_ratios"
UnknownTool == "no_such_tool"
UnhashableTool == "[financial_ratios]"
\* Actions: one that the tool's action_map has and one that it has not.
ValidAction == "all"
BogusAction == "bogus"

\* step["parallel_group"]: key absent, an integer, or JSON null (None).
PgAbsent == [kind |-> "absent", n |-> 0]
PgNull == [kind |-> "null", n |-> 0]
PgInt(k) == [kind |-> "int", n |-> k]
PgValues == {PgAbsent, PgNull} \cup {PgInt(k) : k \in 1..MaxGroup}

\* The (tool, action, params) parts of a step that are explored.
BogusRequest == [tool |-> KnownTool, action |-> BogusAction, params |-> EmptyParams]
ScalarRequest ==
    [tool |-> KnownTool, action |-> ValidAction,
     params |-> [mapping |-> TRUE, symbol |-> ScalarSymbol]]
ListRequest ==
    [tool |-> KnownTool, action |-> ValidAction,
     params |-> [mapping |-> TRUE, symbol |-> ListSymbol]]
UnknownRequest == [tool |-> UnknownTool, action |-> ValidAction, params |-> EmptyParams]
UnhashableRequest ==
    [tool |-> UnhashableTool, action |-> ValidAction, params |-> EmptyParams]
Requests ==
    {ScalarRequest, ListRequest, BogusRequest,
     [tool |-> KnownTool, action |-> ValidAction, params |-> BadParams],
     UnknownRequest, UnhashableRequest}

\* The plain kinds of step, of which longer plans are explored: a step whose
\* tool is run (and returns that it has no such action), a step whose tool is
\* missing and a step whose coroutine raises; and the parallel_group values
\* that sort.
PlainRequests == {BogusRequest, UnknownRequest, UnhashableRequest}
PlainPgValues == {PgAbsent} \cup {PgInt(k) : k \in 1..MaxGroup}
PlainStepChoices(n) == [1..n -> PlainRequests \X PlainPgValues]

\* A steps list built from a choice c of request and parallel_group per
\* position: every step is a mapping with its display number "step" equal to
\* its position.
StepList(c) ==
    [i \in DOMAIN c |-> [step |-> i, tool |-> c[i][1].tool, action |-> c[i][1].action,
                         params |-> c[i][1].params, pg |-> c[i][2]]]
StepChoices(n) == [1..n -> Requests \X PgValues]

\* A plan is a mapping; hasSteps = FALSE is a plan without the "steps" key,
\* for which plan.get("steps", []) is the empty list.
NoStepsKeyPlan == [hasSteps |-> FALSE, steps |-> <<>>]
PlanOf(c) == [hasSteps |-> TRUE, steps |-> StepList(c)]

\* How create_plan ended for a query: it was not called or has not ended
\* ("none"), it returned the value the LLM's completion decoded to ("llm"),
\* it returned the plan of _fallback_plan ("fallback") or it raised
\* ("raised"); and the value it returned: a mapping, a list, or none.
NoPlanned == [how |-> "none", value |-> "none"]
Planned(how, value) == [how |-> how, value |-> value]

\* How direct_tool_call ended: not called, returned a dict, or raised.
NoDirect == [how |-> "none", tool |-> "", action |-> "", success |-> FALSE, error |-> ""]

\* ----------------------------------------------------------------- state
VARIABLES
    plan,        \* the plan handed to Executor.execute_plan
    epc,         \* execute_plan: "idle", "start", "await", "returned", "raised"
    groups,      \* execute_plan's dict groups: key -> list of step positions
    order,       \* sorted(groups.keys()), the list the for loop walks
    gi,          \* position in order of the group being awaited
    task,        \* per step position: the _execute_step coroutine
    allResults,  \* execute_plan's all_results (its return value when returned)
    eerror,      \* class of the exception execute_plan raised, "" if none
    cpc,         \* AgentOrchestrator.chat: "idle", "planning", "executing",
                 \* "synthesizing", "done"; "direct" when execute_plan is
                 \* called on its own
    query,       \* chat's argument, a sequence of characters
    history,     \* ConversationMemory.history
    response,    \* the text chat returned
    stages,      \* the pipeline components chat has invoked for this query
    planned,     \* how planner.create_plan ended for this query
    nchats,      \* the number of chat calls made on the orchestrator
    maxTurns,    \* ConversationMemory.max_turns
    context,     \* the text get_context returned to its caller: to chat for
                 \* the current query, or to the last call on the memory
    appended,    \* every turn add_turn was called with since the last clear
    mcall,       \* the last call on the ConversationMemory, and the one before
    caught,      \* class of the exception chat's except branch caught, "" if none
    offered,     \* the entities of the last turn that a caller of the memory
                 \* gave with entities, since the last clear
    sections,    \* the sections _format_results made of the results
    dret,        \* how direct_tool_call ended: its return value or raise
    calls,       \* the chat calls in progress on one orchestrator
    completion   \* the completion llm.generate returned to synthesize

evars == <<plan, epc, groups, order, gi, task, allResults, eerror>>
svars == <<sections, dret, calls, completion>>
cvars == <<cpc, query, history, response, stages, planned, nchats,
          maxTurns, context, appended, mcall, caught, offered, svars>>
vars == <<plan, epc, groups, order, gi, task, allResults, eerror,
          cpc, query, history, response, stages, planned, nchats,
          maxTurns, context, appended, mcall, caught, offered,
          sections, dret, calls, completion>>

\* -------------------------------------------------- ConversationMemory
\* max_turns of the memory the orchestrator builds (the default).
max_turns == 20
\* The number of characters of a turn that get_context renders.
ContextChars == 500

\* The Python slice h[-k:]: since -0 is 0 it is the whole list for k = 0, the
\* last k elements (all, when there are fewer) for k > 0, and the list
\* without its first -k elements for k < 0.
LastSlice(h, k) ==
    IF k = 0 THEN h
    ELSE IF k > 0
    THEN SubSeq(h, IF Len(h) > k THEN Len(h) - k + 1 ELSE 1, Len(h))
    ELSE SubSeq(h, 1 - k, Len(h))

\* The Python slice c[:n], n >= 0.
FirstSlice(c, n) == SubSeq(c, 1, IF Len(c) < n THEN Len(c) ELSE n)

\* A text of n characters c.
Fill(n, c) == [i \in 1..n |-> c]

\* Variant of add_turn: the history is cut before the turn is appended.
add_turn_TrimFirst(h, role, content) ==
    Append(IF Len(h) > maxTurns * 2 THEN LastSlice(h, maxTurns * 2) ELSE h,
           [role |-> role, content |-> content])

\* ConversationMemory.add_turn: append, then history[-max_turns * 2:] when
\* the history is longer than max_turns * 2.
\* (The timestamp of a turn is not modelled.)
add_turn(h, role, content) ==
    LET a == Append(h, [role |-> role, content |-> content])
    IN IF Len(a) > maxTurns * 2 THEN LastSlice(a, maxTurns * 2) ELSE a

\* The lines of get_context joined by "\n": per turn the prefix of its role
\* and content[:500].
RECURSIVE ContextLines(_)
ContextLines(ts) ==
    IF ts = <<>> THEN <<>>
    ELSE LET t == Head(ts)
             line == <<IF t.role = "user" THEN "User: " ELSE "Dexter: ">>
                     \o FirstSlice(t.content, ContextChars)
         IN IF Tail(ts) = <<>> THEN line
            ELSE line \o <<"\n">> \o ContextLines(Tail(ts))

\* Variant of get_context: the last last_n turns are rendered.
get_context_Turns(h, last_n) ==
    LET recent == LastSlice(h, last_n)
    IN IF recent = <<>> THEN <<>> ELSE ContextLines(recent)

\* ConversationMemory.get_context: history[-last_n * 2:] rendered, the empty
\* text when that slice is empty.
get_context(h, last_n) ==
    LET recent == LastSlice(h, last_n * 2)
    IN IF recent = <<>> THEN <<>> ELSE ContextLines(recent)

\* A call on the memory: its name, the last_n of a get_context call, and the
\* name of the call made before it.
NoCall == [op |-> "none", n |-> 0, prev |-> "none"]
Call(op, n) == [op |-> op, n |-> n, prev |-> mcall.op]

\* --------------------------------- a ConversationMemory used on its own
\* The contents of the turns that are explored: a short one, and one longer
\* than get_context renders.
MemContents == {<<"a">>, Fill(ContextChars + MaxSlack, "b")}
\* The non-empty entity sets of turns that are explored.
MemEntities == {{"FPT"}, {"VNM"}}

\* memory.add_turn(role, content)
AddTurn(role, content) ==
    /\ cpc = "memory"
    /\ Len(appended) < MaxAppends
    /\ history' = add_turn(history, role, content)
    /\ appended' = Append(appended, [role |-> role, content |-> content])
    /\ context' = <<>>
    /\ mcall' = Call("add_turn", 0)
    /\ UNCHANGED <<evars, cpc, query, response, stages, planned, nchats, maxTurns,
                   caught, offered, svars>>

\* memory.add_turn(role, content, entities): add_turn takes role and content
\* only, and the call raises TypeError before its body is entered.
AddTurnEntities(role, content, entities) ==
    /\ cpc = "memory"
    /\ offered' = entities
    /\ context' = <<>>
    /\ mcall' = Call("add_turn_raised", 0)
    /\ UNCHANGED <<evars, cpc, query, history, response, stages, planned, nchats,
                   maxTurns, appended, caught, svars>>

\* memory.get_context(n)
GetContext(n) ==
    /\ cpc = "memory"
    /\ context' = get_context(history, n)
    /\ mcall' = Call("get_context", n)
    /\ UNCHANGED <<evars, cpc, query, history, response, stages, planned, nchats,
                   maxTurns, appended, caught, offered, svars>>

\* memory.clear()
Clear ==
    /\ cpc = "memory"
    /\ history' = <<>>
    /\ appended' = <<>>
    /\ context' = <<>>
    /\ mcall' = Call("clear", 0)
    /\ offered' = {}
    /\ UNCHANGED <<evars, cpc, query, response, stages, planned, nchats, maxTurns, caught, svars>>

\* ConversationMemory(max_turns=n)
InitMemory ==
    /\ plan = NoStepsKeyPlan
    /\ epc = "idle"
    /\ groups = [k \in {} |-> <<>>]
    /\ order = <<>>
    /\ gi = 0
    /\ task = <<>>
    /\ allResults = <<>>
    /\ eerror = ""
    /\ cpc = "memory"
    /\ query = <<>>
    /\ history = <<>>
    /\ response = <<>>
    /\ stages = <<>>
    /\ planned = NoPlanned
    /\ nchats = 0
    /\ maxTurns \in 0..MaxBudget
    /\ context = <<>>
    /\ appended = <<>>
    /\ mcall = NoCall
    /\ caught = ""
    /\ offered = {}
    /\ sections = <<>>
    /\ dret = NoDirect
    /\ calls = <<>>
    /\ completion = <<>>

NextMemory ==
    \/ \E role \in {"user", "assistant"} : \E content \in MemContents :
            AddTurn(role, content)
    \/ \E entities \in MemEntities : AddTurnEntities("user", <<"a">>, entities)
    \/ \E n \in 0..MaxLastN : GetContext(n)
    \/ Clear

SpecMemory == InitMemory /\ [][NextMemory]_vars

\* ------------------------------------------------------------- registry
\* The names of the tools register_all_tools registers.
RegisteredTools ==
    {"vnstock_connector", "financial_statements", "financial_ratios",
     "technical_indicators", "trading_signals", "money_flow", "news_aggregator",
     "sentiment_analysis", "company_risk", "stock_screener", "market_overview",
     "calculators"}

\* The actions the run method of each registered tool accepts (the keys of
\* its action map).
ToolActions ==
    [vnstock_connector |->
        {"stock_overview", "stock_price", "financial_report", "financial_ratio",
         "foreign_trading", "all_symbols", "market_index"},
     financial_statements |->
        {"summary", "balance_sheet", "income_statement", "cash_flow", "growth"},
     financial_ratios |->
        {"all", "valuation", "profitability", "liquidity", "leverage", "per_share",
         "compare"},
     technical_indicators |->
        {"all", "rsi", "macd", "bollinger", "sma", "ema", "stochastic", "atr",
         "summary"},
     trading_signals |->
        {"all", "rsi_signals", "macd_signals", "ma_cross", "support_resistance",
         "trend", "recommendation"},
     money_flow |->
        {"foreign", "foreign_history", "top_foreign_buy", "top_foreign_sell",
         "proprietary", "insider", "flow_analysis", "analyze"},
     news_aggregator |-> {"latest", "search", "stock_news", "market"},
     sentiment_analysis |->
        {"analyze", "analyze_text", "stock_sentiment", "market_sentiment"},
     company_risk |->
        {"assessment", "analyze", "evaluate", "all", "altman_z", "liquidity",
         "volatility", "portfolio"},
     stock_screener |->
        {"value", "value_stocks", "growth_stocks", "growth", "oversold",
         "overbought", "industry", "dividend", "custom"},
     market_overview |-> {"status", "index", "sector", "macro", "breadth", "summary"},
     calculators |->
        {"compound_interest", "position_sizing", "tax", "breakeven", "margin", "dca"}]

\* ToolRegistry.get_tool: self._tools.get(name); "hashable" says whether the
\* dict lookup can be made at all, "found" whether a tool is registered.
get_tool(name) ==
    [hashable |-> name # UnhashableTool, found |-> name \in RegisteredTools]

\* ------------------------------------------------------- _execute_step
\* What a coroutine returned (a dict with success/error) or raised.
NoReturn == [success |-> FALSE, error |-> ""]
FailDict(msg) == [success |-> FALSE, error |-> msg]
OkDict == [success |-> TRUE, error |-> ""]

\* A coroutine of _execute_step: pc "none" (not created), "created",
\* "run1"/"run2" (suspended in the first/second tool.run), "done".
\* calls counts the tool.run bodies entered, received lists the symbol
\* argument each of them got, raised says the coroutine ended by raising.
\* outcomes lists how each entered tool.run ended.
NoTask ==
    [pc |-> "none", calls |-> 0, received |-> <<>>, outcomes |-> <<>>,
     raised |-> FALSE, ret |-> NoReturn]

Step(i) == plan.steps[i]
NSteps == Len(plan.steps)

\* How a tool.run body can end.  Every tool looks the action up first and
\* returns a failure dict for one it does not have; otherwise it returns its
\* data, or raises a TypeError or another Exception.
ToolOutcomes(action) ==
    IF action = BogusAction THEN {"rejected"} ELSE {"data", "TypeError", "Error"}

\* Variant of RetriesCall: the call is repeated after any exception.
RetriesCall_AnyException(pc, outcome) ==
    pc = "run1" /\ outcome \in {"TypeError", "Error"}

\* except TypeError: the call is made a second time, only after the first.
RetriesCall(pc, outcome) == pc = "run1" /\ outcome = "TypeError"

\* ---------------------------------------------------------- execute_plan
\* step.get("parallel_group", 1)
GroupKey(s) == IF s.pg.kind = "absent" THEN PgInt(1) ELSE s.pg

\* groups.setdefault(pg, []).append(step), walking the steps from position i:
\* the positions of the steps with key k, in the order of plan.steps.
RECURSIVE Positions(_, _, _)
Positions(steps, k, i) ==
    IF i > Len(steps) THEN <<>>
    ELSE (IF GroupKey(steps[i]) = k THEN <<i>> ELSE <<>>) \o Positions(steps, k, i + 1)

GroupsOf(steps) ==
    [k \in {GroupKey(steps[i]) : i \in 1..Len(steps)} |-> Positions(steps, k, 1)]

\* sorted() compares the keys pairwise: None and an int do not compare.
Sortable(keys) ==
    \A a \in keys : \A b \in keys : a # b => (a.kind = "int" /\ b.kind = "int")

\* Variant of SortKeys: the keys in descending order.
RECURSIVE SortKeys_Descending(_)
SortKeys_Descending(keys) ==
    IF keys = {} THEN <<>>
    ELSE LET m == CHOOSE k \in keys : \A o \in keys : k.n >= o.n
         IN <<m>> \o SortKeys_Descending(keys \ {m})

\* sorted(groups.keys()) of keys that compare: ascending.
RECURSIVE SortKeys(_)
SortKeys(keys) ==
    IF keys = {} THEN <<>>
    ELSE LET m == CHOOSE k \in keys : \A o \in keys : k.n <= o.n
         IN <<m>> \o SortKeys(keys \ {m})

\* tasks = [self._execute_step(step) for step in group_steps], handed to
\* asyncio.gather: the coroutines of the steps at positions ps are created.
RECURSIVE Launch(_, _)
Launch(t, ps) ==
    IF ps = <<>> THEN t
    ELSE Launch([t EXCEPT ![Head(ps)].pc = "created"], Tail(ps))

\* Variant of GroupSettled: resume as soon as one task has ended.
GroupSettled_FirstCompleted(ps) == \E k \in 1..Len(ps) : task[ps[k]].pc = "done"

\* await asyncio.gather(*tasks, ...) resumes when every task has ended.
GroupSettled(ps) == \A k \in 1..Len(ps) : task[ps[k]].pc = "done"

\* Variant of GatherRaises: gather without return_exceptions re-raises the
\* exception of a task into execute_plan.
GatherRaises_Propagate(ps) == \E k \in 1..Len(ps) : task[ps[k]].raised

\* return_exceptions=True: gather hands a raised exception back as a result
\* and never re-raises it into execute_plan.
GatherRaises(ps) == FALSE

\* The dict appended for one (step, result) pair of the zip.  keys is the set
\* of keys the dict has; idx is the position of the step in plan.steps.
StepResult(i) ==
    IF task[i].raised
    THEN [keys |-> {"step", "tool", "action", "success", "error"}, idx |-> i,
          step |-> Step(i).step, tool |-> Step(i).tool, action |-> Step(i).action,
          success |-> FALSE, error |-> task[i].ret.error, data |-> NoReturn]
    ELSE [keys |-> {"step", "tool", "action", "success", "data"}, idx |-> i,
          step |-> Step(i).step, tool |-> Step(i).tool, action |-> Step(i).action,
          success |-> TRUE, error |-> "", data |-> task[i].ret]

\* Variant of GroupResults: the results that are exceptions are skipped.
GroupResults_SkipExceptions(ps) ==
    LET kept == SelectSeq(ps, LAMBDA i : ~task[i].raised)
    IN [k \in 1..Len(kept) |-> StepResult(kept[k])]

\* for step, result in zip(group_steps, group_results): all_results.append(..)
GroupResults(ps) == [k \in 1..Len(ps) |-> StepResult(ps[k])]

\* Variant of NoStepsResult: an empty dict is returned.
NoStepsResult_EmptyDict ==
    [keys |-> {}, idx |-> 0, step |-> 0, tool |-> "", action |-> "",
     success |-> FALSE, error |-> "", data |-> NoReturn]

\* return [{"error": <the text saying that the plan has no steps>}]
NoStepsResult ==
    [keys |-> {"error"}, idx |-> 0, step |-> 0, tool |-> "", action |-> "",
     success |-> FALSE, error |-> "no_steps", data |-> NoReturn]

\* execute_plan up to its first await: the empty-plan return, the grouping,
\* the sort of the keys and the launch of the first group.
ExecBegin ==
    /\ epc = "start"
    /\ IF plan.steps = <<>>
       THEN /\ allResults' = <<NoStepsResult>>
            /\ epc' = "returned"
            /\ UNCHANGED <<groups, order, gi, task, eerror>>
       ELSE LET g == GroupsOf(plan.steps) IN
            /\ groups' = g
            /\ allResults' = <<>>
            /\ IF Sortable(DOMAIN g)
               THEN /\ order' = SortKeys(DOMAIN g)
                    /\ gi' = 1
                    /\ task' = Launch(task, g[order'[1]])
                    /\ epc' = "await"
                    /\ UNCHANGED eerror
               ELSE /\ epc' = "raised"
                    /\ eerror' = "TypeError"
                    /\ UNCHANGED <<order, gi, task>>
    /\ UNCHANGED <<plan, cvars>>

\* _execute_step from its start to its first suspension: the registry
\* lookup, and the call of tool.run with action=action, **params.
StepStart(i) ==
    /\ epc = "await"
    /\ task[i].pc = "created"
    /\ LET s == Step(i)
           t == get_tool(s.tool)
       IN task' = [task EXCEPT ![i] =
            IF ~t.hashable
            THEN [@ EXCEPT !.pc = "done", !.raised = TRUE,
                           !.ret = FailDict("unhashable")]
            ELSE IF ~t.found
            THEN [@ EXCEPT !.pc = "done", !.ret = FailDict("tool_missing")]
            ELSE IF ~s.params.mapping
            THEN [@ EXCEPT !.pc = "done", !.ret = FailDict("TypeError")]
            ELSE [@ EXCEPT !.pc = "run1", !.calls = 1,
                           !.received = <<s.params.symbol>>]]
    /\ UNCHANGED <<plan, epc, groups, order, gi, allResults, eerror, cvars>>

\* A suspended tool.run ends with outcome o, and _execute_step runs on: it
\* returns the tool's dict, calls tool.run again, or returns a failure dict.
ToolSettle(i, o) ==
    /\ epc = "await"
    /\ task[i].pc \in {"run1", "run2"}
    /\ o \in ToolOutcomes(Step(i).action)
    /\ task' = [task EXCEPT ![i] =
            LET t == [@ EXCEPT !.outcomes = Append(@, o)] IN
            IF o = "data" THEN [t EXCEPT !.pc = "done", !.ret = OkDict]
            ELSE IF o = "rejected"
            THEN [t EXCEPT !.pc = "done", !.ret = FailDict("action_invalid")]
            ELSE IF RetriesCall(t.pc, o)
            THEN [t EXCEPT !.pc = "run2", !.calls = @ + 1,
                           !.received = Append(@, Step(i).params.symbol)]
            ELSE [t EXCEPT !.pc = "done", !.ret = FailDict(o)]]
    /\ UNCHANGED <<plan, epc, groups, order, gi, allResults, eerror, cvars>>

\* gather resumes execute_plan: the zip loop appends the group's results,
\* then the next group is launched and awaited, or all_results is returned.
GroupSettle ==
    /\ epc = "await"
    /\ LET ps == groups[order[gi]] IN
       /\ GroupSettled(ps)
       /\ IF GatherRaises(ps)
          THEN /\ epc' = "raised"
               /\ eerror' = "Exception"
               /\ UNCHANGED <<gi, task, allResults>>
          ELSE /\ allResults' = allResults \o GroupResults(ps)
               /\ UNCHANGED eerror
               /\ IF gi < Len(order)
                  THEN /\ gi' = gi + 1
                       /\ task' = Launch(task, groups[order[gi + 1]])
                       /\ UNCHANGED epc
                  ELSE /\ epc' = "returned"
                       /\ UNCHANGED <<gi, task>>
    /\ UNCHANGED <<plan, groups, order, cvars>>

\* ----------------------------------------- the Executor called on a plan
ExecCalled ==
    /\ epc = "start"
    /\ groups = [k \in {} |-> <<>>]
    /\ order = <<>>
    /\ gi = 0
    /\ task = [i \in 1..Len(plan.steps) |-> NoTask]
    /\ allResults = <<>>
    /\ eerror = ""
    /\ cpc = "direct"
    /\ query = <<>>
    /\ history = <<>>
    /\ response = <<>>
    /\ stages = <<>>
    /\ planned = NoPlanned
    /\ nchats = 0
    /\ maxTurns = max_turns
    /\ context = <<>>
    /\ appended = <<>>
    /\ mcall = NoCall
    /\ caught = ""
    /\ offered = {}
    /\ sections = <<>>
    /\ dret = NoDirect
    /\ calls = <<>>
    /\ completion = <<>>

InitExec ==
    /\ \/ plan = NoStepsKeyPlan
       \/ \E n \in 0..MaxSteps : \E c \in StepChoices(n) : plan = PlanOf(c)
    /\ ExecCalled

\* The Executor called on a longer plan of plain steps.
InitGroups ==
    /\ \E n \in 1..MaxPlainSteps : \E c \in PlainStepChoices(n) : plan = PlanOf(c)
    /\ ExecCalled

NextExec ==
    \/ ExecBegin
    \/ \E i \in 1..NSteps : StepStart(i)
    \/ \E i \in 1..NSteps : \E o \in {"data", "rejected", "TypeError", "Error"} : ToolSettle(i, o)
    \/ GroupSettle

SpecExec == InitExec /\ [][NextExec]_vars

SpecGroups == InitGroups /\ [][NextExec]_vars

\* ------------------------------------------------------------ strings
\* The characters queries are made of.
QueryChars == {"h", "i", "e", "y", "H", " "}

\* The ASCII letters, upper case and lower case.
UpperLetters ==
    <<"A", "B", "C", "D", "E", "F", "G", "H", "I", "J", "K", "L", "M",
      "N", "O", "P", "Q", "R", "S", "T", "U", "V", "W", "X", "Y", "Z">>
LowerLetters ==
    <<"a", "b", "c", "d", "e", "f", "g", "h", "i", "j", "k", "l", "m",
      "n", "o", "p", "q", "r", "s", "t", "u", "v", "w", "x", "y", "z">>

\* str.lower() on one character (the upper-case characters queries are made
\* of are ASCII).
LowerChar(c) ==
    IF \E k \in 1..26 : UpperLetters[k] = c
    THEN LowerLetters[CHOOSE k \in 1..26 : UpperLetters[k] = c]
    ELSE c
\* str.lower()
Lower(q) == [k \in 1..Len(q) |-> LowerChar(q[k])]

\* str.strip(): leading and trailing whitespace removed.
RECURSIVE LStrip(_)
LStrip(q) == IF q # <<>> /\ Head(q) = " " THEN LStrip(Tail(q)) ELSE q
RECURSIVE RStrip(_)
RStrip(q) ==
    IF q # <<>> /\ q[Len(q)] = " " THEN RStrip(SubSeq(q, 1, Len(q) - 1)) ELSE q
Strip(q) == RStrip(LStrip(q))

\* str.startswith(g)
StartsWith(q, g) == Len(g) <= Len(q) /\ SubSeq(q, 1, Len(g)) = g

\* ------------------------------------------------------- _is_greeting
\* The list greetings of _is_greeting, each phrase as its characters; a
\* character outside ASCII is written as its code point.
Greetings ==
    << <<"x", "i", "n", " ", "c", "h", "U+00E0", "o">>,
       <<"h", "e", "l", "l", "o">>,
       <<"h", "i">>,
       <<"c", "h", "U+00E0", "o">>,
       <<"h", "e", "y">>,
       <<"h", "e", "l", "p">>,
       <<"g", "i", "U+00FA", "p">>,
       <<"h", "U+01B0", "U+1EDB", "n", "g", " ", "d", "U+1EAB", "n">>,
       <<"b", "U+1EAF", "t", " ", "U+0111", "U+1EA7", "u">>,
       <<"b", "U+1EA1", "n", " ", "l", "U+00E0", " ", "a", "i">>,
       <<"w", "h", "o", " ", "a", "r", "e", " ", "y", "o", "u">>,
       <<"d", "e", "x", "t", "e", "r">> >>

\* Variant of is_greeting: the query is not lower-cased.
is_greeting_CaseSensitive(q) ==
    LET s == Strip(q)
    IN \E k \in 1..Len(Greetings) : StartsWith(s, Greetings[k]) \/ s = Greetings[k]

\* q = query.lower().strip(); any(q.startswith(g) or q == g for g in greetings)
is_greeting(q) ==
    LET s == Strip(Lower(q))
    IN \E k \in 1..Len(Greetings) : StartsWith(s, Greetings[k]) \/ s = Greetings[k]

\* ------------------------------------------------ Planner._fallback_plan
\* k in s, for a non-empty string k.
Contains(s, k) ==
    \E i \in 1..(Len(s) - Len(k) + 1) : s[i] = k[1] /\ SubSeq(s, i, i + Len(k) - 1) = k
\* any(k in s for k in ks)
AnyIn(ks, s) == \E j \in 1..Len(ks) : Contains(s, ks[j])

\* [A-Z]
UpperAZ == {UpperLetters[k] : k \in 1..Len(UpperLetters)}
\* \w: of the characters queries are made of, all but the blank and "?".
IsWordChar(c) == c \notin {" ", "?"}
\* The pattern \b([A-Z]{3})\b matches at position i of q.
SymbolAt(q, i) ==
    /\ i + 2 <= Len(q)
    /\ q[i] \in UpperAZ /\ q[i + 1] \in UpperAZ /\ q[i + 2] \in UpperAZ
    /\ (i = 1 \/ ~IsWordChar(q[i - 1]))
    /\ (i + 2 = Len(q) \/ ~IsWordChar(q[i + 3]))
\* re.findall(r'\b([A-Z]{3})\b', q), scanning from position i.
RECURSIVE FindAll(_, _)
FindAll(q, i) ==
    IF i > Len(q) THEN <<>>
    ELSE IF SymbolAt(q, i) THEN <<SubSeq(q, i, i + 2)>> \o FindAll(q, i + 3)
    ELSE FindAll(q, i + 1)
\* stop_words
stop_words ==
    {<<"V", "N", "D">>,
     <<"U", "S", "D">>,
     <<"G", "D", "P">>,
     <<"C", "P", "I">>,
     <<"E", "T", "F">>,
     <<"I", "P", "O">>,
     <<"C", "E", "O">>,
     <<"C", "F", "O">>}

\* symbols = [s for s in found_symbols if s not in stop_words]
FallbackSymbols(q) == SelectSeq(FindAll(q, 1), LAMBDA s : s \notin stop_words)

\* str.replace(k, ""): the occurrences of k are removed, left to right.
RECURSIVE RemoveAll(_, _)
RemoveAll(s, k) ==
    IF Len(s) < Len(k) THEN s
    ELSE IF SubSeq(s, 1, Len(k)) = k THEN RemoveAll(SubSeq(s, Len(k) + 1, Len(s)), k)
    ELSE <<Head(s)>> \o RemoveAll(Tail(s), k)
\* str.strip("?")
RECURSIVE StripMarks(_)
StripMarks(s) ==
    IF s # <<>> /\ Head(s) = "?" THEN StripMarks(Tail(s))
    ELSE IF s # <<>> /\ s[Len(s)] = "?" THEN StripMarks(SubSeq(s, 1, Len(s) - 1))
    ELSE s

\* The keyword lists of _fallback_plan: those of the if/elif chain, in its
\* order, and those inside the branches.
Kw ==
    [analyze |->
        << <<"p", "h", "U+00E2", "n", " ", "t", "U+00ED", "c", "h">>,
           <<"U+0111", "U+00E1", "n", "h", " ", "g", "i", "U+00E1">>,
           <<"r", "e", "v", "i", "e", "w">>,
           <<"a", "n", "a", "l", "y", "z", "e">> >>,
     foreign |->
        << <<"k", "h", "U+1ED1", "i", " ", "n", "g", "o", "U+1EA1", "i">>,
           <<"f", "o", "r", "e", "i", "g", "n">> >>,
     news |->
        << <<"t", "i", "n", " ", "t", "U+1EE9", "c">>,
           <<"n", "e", "w", "s">>,
           <<"t", "i", "n">> >>,
     screen |->
        << <<"l", "U+1ECD", "c">>,
           <<"s", "U+00E0", "n", "g", " ", "l", "U+1ECD", "c">>,
           <<"s", "c", "r", "e", "e", "n">>,
           <<"t", "U+00EC", "m">> >>,
     market |->
        << <<"t", "h", "U+1ECB", " ", "t", "r", "U+01B0", "U+1EDD", "n", "g">>,
           <<"m", "a", "r", "k", "e", "t">>,
           <<"v", "n", "i", "n", "d", "e", "x">> >>,
     valuation |->
        << <<"U+0111", "U+1ECB", "n", "h", " ", "g", "i", "U+00E1">>,
           <<"d", "c", "f">>,
           <<"v", "a", "l", "u", "a", "t", "i", "o", "n">> >>,
     technical |->
        << <<"r", "s", "i">>,
           <<"m", "a", "c", "d">>,
           <<"b", "o", "l", "l", "i", "n", "g", "e", "r">>,
           <<"k", "U+1EF9", " ", "t", "h", "u", "U+1EAD", "t">>,
           <<"t", "e", "c", "h", "n", "i", "c", "a", "l">> >>,
     risk |->
        << <<"r", "U+1EE7", "i", " ", "r", "o">>,
           <<"r", "i", "s", "k">> >>,
     money_flow |->
        << <<"d", "U+00F2", "n", "g", " ", "t", "i", "U+1EC1", "n">>,
           <<"m", "o", "n", "e", "y", " ", "f", "l", "o", "w">> >>,
     financial |->
        << <<"t", "U+00E0", "i", " ", "c", "h", "U+00ED", "n", "h">>,
           <<"f", "i", "n", "a", "n", "c", "i", "a", "l">> >>,
     report |->
        << <<"b", "U+00E1", "o", " ", "c", "U+00E1", "o">>,
           <<"r", "e", "p", "o", "r", "t">> >>,
     calculator |->
        << <<"t", "U+00ED", "n", "h">>,
           <<"c", "a", "l", "c", "u", "l", "a", "t", "o", "r">>,
           <<"l", "U+00E3", "i", " ", "k", "U+00E9", "p">>,
           <<"c", "o", "m", "p", "o", "u", "n", "d">>,
           <<"p", "o", "s", "i", "t", "i", "o", "n", " ", "s", "i", "z", "e">>,
           <<"k", "h", "U+1ED1", "i", " ", "l", "U+01B0", "U+1EE3", "n", "g", " ", "l", "U+1EC7", "n", "h">>,
           <<"t", "h", "u", "U+1EBF">>,
           <<"t", "a", "x">>,
           <<"h", "o", "U+00E0", " ", "v", "U+1ED1", "n">>,
           <<"h", "U+00F2", "a", " ", "v", "U+1ED1", "n">>,
           <<"b", "r", "e", "a", "k", "e", "v", "e", "n">>,
           <<"m", "a", "r", "g", "i", "n">>,
           <<"k", "U+00FD", " ", "q", "u", "U+1EF9">>,
           <<"d", "c", "a">> >>,
     education |->
        << <<"t", "h", "u", "U+1EAD", "t", " ", "n", "g", "U+1EEF">>,
           <<"g", "i", "U+1EA3", "i", " ", "t", "h", "U+00ED", "c", "h">>,
           <<"n", "g", "h", "U+0129", "a", " ", "l", "U+00E0", " ", "g", "U+00EC">>,
           <<"l", "U+00E0", " ", "g", "U+00EC">>,
           <<"h", "U+01B0", "U+1EDB", "n", "g", " ", "d", "U+1EAB", "n">>,
           <<"t", "u", "t", "o", "r", "i", "a", "l">>,
           <<"h", "U+1ECD", "c">>,
           <<"k", "i", "U+1EBF", "n", " ", "t", "h", "U+1EE9", "c">>,
           <<"c", "a", "s", "e", " ", "s", "t", "u", "d", "y">>,
           <<"q", "u", "i", "z">>,
           <<"k", "i", "U+1EC3", "m", " ", "t", "r", "a">>,
           <<"e", "d", "u", "c", "a", "t", "i", "o", "n">>,
           <<"n", "g", "U+01B0", "U+1EDD", "i", " ", "m", "U+1EDB", "i">>,
           <<"n", "e", "w", "b", "i", "e">>,
           <<"b", "e", "g", "i", "n", "n", "e", "r">> >>,
     social |->
        << <<"d", "a", "n", "h", " ", "m", "U+1EE5", "c">>,
           <<"p", "o", "r", "t", "f", "o", "l", "i", "o">>,
           <<"w", "a", "t", "c", "h", "l", "i", "s", "t">>,
           <<"t", "h", "e", "o", " ", "d", "U+00F5", "i">>,
           <<"x", "U+1EBF", "p", " ", "h", "U+1EA1", "n", "g">>,
           <<"l", "e", "a", "d", "e", "r", "b", "o", "a", "r", "d">>,
           <<"t", "o", "p", " ", "d", "a", "n", "h", " ", "m", "U+1EE5", "c">>,
           <<"c", "U+1ED9", "n", "g", " ", "U+0111", "U+1ED3", "n", "g">> >>,
     alerts |->
        << <<"c", "U+1EA3", "n", "h", " ", "b", "U+00E1", "o">>,
           <<"a", "l", "e", "r", "t">>,
           <<"t", "h", "U+00F4", "n", "g", " ", "b", "U+00E1", "o">> >>,
     quiz |->
        << <<"q", "u", "i", "z">>,
           <<"k", "i", "U+1EC3", "m", " ", "t", "r", "a">>,
           <<"t", "r", "U+1EAF", "c", " ", "n", "g", "h", "i", "U+1EC7", "m">> >>,
     tutorial |->
        << <<"h", "U+01B0", "U+1EDB", "n", "g", " ", "d", "U+1EAB", "n">>,
           <<"t", "u", "t", "o", "r", "i", "a", "l">>,
           <<"h", "U+1ECD", "c">>,
           <<"n", "g", "U+01B0", "U+1EDD", "i", " ", "m", "U+1EDB", "i">>,
           <<"n", "e", "w", "b", "i", "e">>,
           <<"b", "e", "g", "i", "n", "n", "e", "r">> >>,
     list_terms |->
        << <<"d", "a", "n", "h", " ", "s", "U+00E1", "c", "h">>,
           <<"l", "i", "s", "t">>,
           <<"l", "i", "U+1EC7", "t", " ", "k", "U+00EA">> >>,
     term_prefixes |->
        << <<"l", "U+00E0", " ", "g", "U+00EC">>,
           <<"n", "g", "h", "U+0129", "a", " ", "l", "U+00E0", " ", "g", "U+00EC">>,
           <<"g", "i", "U+1EA3", "i", " ", "t", "h", "U+00ED", "c", "h">>,
           <<"t", "h", "u", "U+1EAD", "t", " ", "n", "g", "U+1EEF">> >>,
     create |->
        << <<"t", "U+1EA1", "o">>,
           <<"c", "r", "e", "a", "t", "e">>,
           <<"m", "U+1EDF">> >>,
     leaderboard |->
        << <<"x", "U+1EBF", "p", " ", "h", "U+1EA1", "n", "g">>,
           <<"l", "e", "a", "d", "e", "r", "b", "o", "a", "r", "d">>,
           <<"r", "a", "n", "k", "i", "n", "g">> >>,
     top |->
        << <<"t", "o", "p">>,
           <<"h", "i", "U+1EC7", "u", " ", "q", "u", "U+1EA3">>,
           <<"t", "U+1ED1", "t", " ", "n", "h", "U+1EA5", "t">> >>,
     watchlist |->
        << <<"w", "a", "t", "c", "h", "l", "i", "s", "t">>,
           <<"t", "h", "e", "o", " ", "d", "U+00F5", "i">> >>,
     add |->
        << <<"t", "h", "U+00EA", "m">>,
           <<"a", "d", "d">> >>,
     remove |->
        << <<"x", "o", "U+00E1">>,
           <<"x", "U+00F3", "a">>,
           <<"r", "e", "m", "o", "v", "e">>,
           <<"b", "U+1ECF">> >>,
     mine |->
        << <<"x", "e", "m">>,
           <<"l", "i", "s", "t">>,
           <<"c", "U+1EE7", "a", " ", "t", "U+00F4", "i">>,
           <<"m", "y">> >>]

\* The single keywords the branches test.
W ==
    [mua |->
        <<"m", "u", "a">>,
     ban |->
        <<"b", "U+00E1", "n">>,
     tang_truong |->
        <<"t", "U+0103", "n", "g", " ", "t", "r", "U+01B0", "U+1EDF", "n", "g">>,
     growth |->
        <<"g", "r", "o", "w", "t", "h">>,
     oversold |->
        <<"o", "v", "e", "r", "s", "o", "l", "d">>,
     qua_ban |->
        <<"q", "u", "U+00E1", " ", "b", "U+00E1", "n">>,
     tuan |->
        <<"t", "u", "U+1EA7", "n">>,
     weekly |->
        <<"w", "e", "e", "k", "l", "y">>,
     danh_muc |->
        <<"d", "a", "n", "h", " ", "m", "U+1EE5", "c">>,
     portfolio |->
        <<"p", "o", "r", "t", "f", "o", "l", "i", "o">>,
     lai_kep |->
        <<"l", "U+00E3", "i", " ", "k", "U+00E9", "p">>,
     compound |->
        <<"c", "o", "m", "p", "o", "u", "n", "d">>,
     position |->
        <<"p", "o", "s", "i", "t", "i", "o", "n">>,
     khoi_luong_lenh |->
        <<"k", "h", "U+1ED1", "i", " ", "l", "U+01B0", "U+1EE3", "n", "g", " ", "l", "U+1EC7", "n", "h">>,
     vao_lenh |->
        <<"v", "U+00E0", "o", " ", "l", "U+1EC7", "n", "h">>,
     thue |->
        <<"t", "h", "u", "U+1EBF">>,
     tax |->
        <<"t", "a", "x">>,
     phi |->
        <<"p", "h", "U+00ED">>,
     hoa_von |->
        <<"h", "o", "U+00E0", " ", "v", "U+1ED1", "n">>,
     hoa_von2 |->
        <<"h", "U+00F2", "a", " ", "v", "U+1ED1", "n">>,
     breakeven |->
        <<"b", "r", "e", "a", "k", "e", "v", "e", "n">>,
     margin |->
        <<"m", "a", "r", "g", "i", "n">>,
     ky_quy |->
        <<"k", "U+00FD", " ", "q", "u", "U+1EF9">>,
     dca |->
        <<"d", "c", "a">>,
     co_ban |->
        <<"c", "U+01A1", " ", "b", "U+1EA3", "n">>,
     fundamental |->
        <<"f", "u", "n", "d", "a", "m", "e", "n", "t", "a", "l">>,
     ky_thuat |->
        <<"k", "U+1EF9", " ", "t", "h", "u", "U+1EAD", "t">>,
     technical |->
        <<"t", "e", "c", "h", "n", "i", "c", "a", "l">>,
     giao_dich |->
        <<"g", "i", "a", "o", " ", "d", "U+1ECB", "c", "h">>,
     trading |->
        <<"t", "r", "a", "d", "i", "n", "g">>,
     rui_ro |->
        <<"r", "U+1EE7", "i", " ", "r", "o">>,
     risk |->
        <<"r", "i", "s", "k">>,
     gia_tri |->
        <<"g", "i", "U+00E1", " ", "t", "r", "U+1ECB">>,
     value |->
        <<"v", "a", "l", "u", "e">>,
     swing |->
        <<"s", "w", "i", "n", "g">>,
     bctc |->
        <<"b", "c", "t", "c">>,
     bao_cao_tai_chinh |->
        <<"b", "U+00E1", "o", " ", "c", "U+00E1", "o", " ", "t", "U+00E0", "i", " ", "c", "h", "U+00ED", "n", "h">>,
     case_study |->
        <<"c", "a", "s", "e", " ", "s", "t", "u", "d", "y">>,
     xem |->
        <<"x", "e", "m">>,
     list |->
        <<"l", "i", "s", "t">>,
     danh_sach |->
        <<"d", "a", "n", "h", " ", "s", "U+00E1", "c", "h">>,
     kiem_tra |->
        <<"k", "i", "U+1EC3", "m", " ", "t", "r", "a">>,
     check |->
        <<"c", "h", "e", "c", "k">>,
     xoa |->
        <<"x", "U+00F3", "a">>,
     delete |->
        <<"d", "e", "l", "e", "t", "e">>,
     lich_su |->
        <<"l", "U+1ECB", "c", "h", " ", "s", "U+1EED">>,
     history |->
        <<"h", "i", "s", "t", "o", "r", "y">>]

\* One step of a fallback plan; its parallel_group is 1.
\* (The reason text of a step is not modelled.)
FStep(n, tool, action, params) ==
    [step |-> n, tool |-> tool, action |-> action, params |-> params, pg |-> PgInt(1)]
\* {"symbol": symbol}
SymbolParams(symbol) ==
    [mapping |-> TRUE, symbol |-> [kind |-> "scalar", elems |-> <<symbol>>]]
\* {"symbol": symbol} if symbol else {}
OptSymbolParams(symbol) == IF symbol # <<>> THEN SymbolParams(symbol) ELSE EmptyParams
\* {"topic": topic} and {"term": term}
TopicParams(topic) == [mapping |-> TRUE, symbol |-> NoSymbol, topic |-> topic]
TermParams(term) == [mapping |-> TRUE, symbol |-> NoSymbol, term |-> term]

\* The term of the define step: query.strip(), then for each prefix
\* term.lower().replace(prefix, "").strip().strip("?").
RECURSIVE TermAfter(_, _)
TermAfter(term, k) ==
    IF k > Len(Kw.term_prefixes) THEN term
    ELSE TermAfter(StripMarks(Strip(RemoveAll(Lower(term), Kw.term_prefixes[k]))), k + 1)
DefineTerm(q) == TermAfter(Strip(q), 1)

\* symbol = symbols[0] if symbols else ""
FirstSymbol(symbols) == IF symbols # <<>> THEN symbols[1] ELSE <<>>

\* The if/elif chain of _fallback_plan: the steps of the first keyword group
\* that query_lower contains a keyword of, none when that branch emits
\* nothing or no group matches.
KeywordSteps(q) ==
    LET query_lower == Lower(q)
        symbol == FirstSymbol(FallbackSymbols(q))
        Has(k) == Contains(query_lower, k)
        AnyOf(ks) == AnyIn(ks, query_lower)
        One(tool, action, params) == <<FStep(1, tool, action, params)>>
    IN
    IF AnyOf(Kw.analyze) THEN
        IF symbol # <<>>
        THEN << FStep(1, "financial_ratios", "all", SymbolParams(symbol)),
                FStep(2, "technical_indicators", "summary", SymbolParams(symbol)),
                FStep(3, "trading_signals", "recommendation", SymbolParams(symbol)),
                FStep(4, "company_risk", "assessment", SymbolParams(symbol)) >>
        ELSE One("market_overview", "summary", EmptyParams)
    ELSE IF AnyOf(Kw.foreign) THEN
        IF Has(W.mua) THEN One("money_flow", "top_foreign_buy", EmptyParams)
        ELSE IF Has(W.ban) THEN One("money_flow", "top_foreign_sell", EmptyParams)
        ELSE << FStep(1, "money_flow", "top_foreign_buy", EmptyParams),
                FStep(2, "money_flow", "top_foreign_sell", EmptyParams) >>
    ELSE IF AnyOf(Kw.news) THEN
        One("news_aggregator", IF symbol # <<>> THEN "stock_news" ELSE "market",
            OptSymbolParams(symbol))
    ELSE IF AnyOf(Kw.screen) THEN
        One("stock_screener",
            IF Has(W.tang_truong) \/ Has(W.growth) THEN "growth"
            ELSE IF Has(W.oversold) \/ Has(W.qua_ban) THEN "oversold"
            ELSE "value",
            EmptyParams)
    ELSE IF AnyOf(Kw.market) THEN One("market_overview", "summary", EmptyParams)
    ELSE IF AnyOf(Kw.valuation) THEN
        IF symbol # <<>> THEN One("dcf_valuation", "valuation", SymbolParams(symbol))
        ELSE <<>>
    ELSE IF AnyOf(Kw.technical) THEN
        IF symbol # <<>> THEN One("technical_indicators", "all", SymbolParams(symbol))
        ELSE <<>>
    ELSE IF AnyOf(Kw.risk) THEN
        IF symbol # <<>> THEN One("company_risk", "assessment", SymbolParams(symbol))
        ELSE <<>>
    ELSE IF AnyOf(Kw.money_flow) THEN
        IF symbol # <<>> THEN One("money_flow", "flow_analysis", SymbolParams(symbol))
        ELSE <<>>
    ELSE IF AnyOf(Kw.financial) THEN
        IF symbol # <<>> THEN One("financial_statements", "summary", SymbolParams(symbol))
        ELSE <<>>
    ELSE IF AnyOf(Kw.report) THEN
        IF Has(W.tuan) \/ Has(W.weekly) THEN One("reporting", "weekly_report", EmptyParams)
        ELSE IF Has(W.danh_muc) \/ Has(W.portfolio)
        THEN One("reporting", "portfolio_report", EmptyParams)
        ELSE IF symbol # <<>> THEN One("reporting", "stock_report", SymbolParams(symbol))
        ELSE One("reporting", "daily_report", EmptyParams)
    ELSE IF AnyOf(Kw.calculator) THEN
        One("calculators",
            IF Has(W.lai_kep) \/ Has(W.compound) THEN "compound_interest"
            ELSE IF Has(W.position) \/ Has(W.khoi_luong_lenh) \/ Has(W.vao_lenh)
            THEN "position_sizing"
            ELSE IF Has(W.thue) \/ Has(W.tax) \/ Has(W.phi) THEN "tax"
            ELSE IF Has(W.hoa_von) \/ Has(W.hoa_von2) \/ Has(W.breakeven) THEN "breakeven"
            ELSE IF Has(W.margin) \/ Has(W.ky_quy) THEN "margin"
            ELSE IF Has(W.dca) THEN "dca"
            ELSE "compound_interest",
            EmptyParams)
    ELSE IF AnyOf(Kw.education) THEN
        IF AnyOf(Kw.quiz) THEN
            One("education", "quiz",
                TopicParams(IF Has(W.co_ban) \/ Has(W.fundamental) THEN "fundamental"
                            ELSE IF Has(W.ky_thuat) \/ Has(W.technical) THEN "technical"
                            ELSE IF Has(W.giao_dich) \/ Has(W.trading) THEN "trading"
                            ELSE "all"))
        ELSE IF AnyOf(Kw.tutorial) THEN
            One("education", "tutorial",
                TopicParams(IF Has(W.co_ban) \/ Has(W.fundamental) THEN "fundamental_analysis"
                            ELSE IF Has(W.ky_thuat) \/ Has(W.technical) THEN "technical_analysis"
                            ELSE IF Has(W.rui_ro) \/ Has(W.risk) THEN "risk_management"
                            ELSE IF Has(W.gia_tri) \/ Has(W.value) THEN "value_investing"
                            ELSE IF Has(W.swing) THEN "swing_trading"
                            ELSE IF Has(W.dca) THEN "dca"
                            ELSE IF Has(W.bctc) \/ Has(W.bao_cao_tai_chinh)
                            THEN "reading_financial_statements"
                            ELSE "beginner"))
        ELSE IF Has(W.case_study) THEN One("education", "case_study", OptSymbolParams(symbol))
        ELSE IF AnyOf(Kw.list_terms) THEN One("education", "list_terms", EmptyParams)
        ELSE One("education", "define", TermParams(DefineTerm(q)))
    ELSE IF AnyOf(Kw.social) THEN
        IF AnyOf(Kw.create) THEN One("social", "create_portfolio", EmptyParams)
        ELSE IF AnyOf(Kw.leaderboard) THEN One("social", "leaderboard", EmptyParams)
        ELSE IF AnyOf(Kw.top) THEN One("social", "top_portfolios", EmptyParams)
        ELSE IF AnyOf(Kw.watchlist) THEN
            IF AnyOf(Kw.add) THEN One("social", "add_watchlist", OptSymbolParams(symbol))
            ELSE IF AnyOf(Kw.remove) THEN One("social", "remove_watchlist", OptSymbolParams(symbol))
            ELSE One("social", "watchlist", EmptyParams)
        ELSE IF AnyOf(Kw.mine) THEN One("social", "my_portfolios", EmptyParams)
        ELSE One("social", "top_portfolios", EmptyParams)
    ELSE IF AnyOf(Kw.alerts) THEN
        IF Has(W.xem) \/ Has(W.list) \/ Has(W.danh_sach) THEN One("alerts", "list", EmptyParams)
        ELSE IF Has(W.kiem_tra) \/ Has(W.check) THEN One("alerts", "check", EmptyParams)
        ELSE IF Has(W.xoa) \/ Has(W.delete) THEN One("alerts", "list", EmptyParams)
        ELSE IF Has(W.lich_su) \/ Has(W.history) THEN One("alerts", "history", EmptyParams)
        ELSE One("alerts", "list", EmptyParams)
    ELSE <<>>

\* Variant of DefaultSteps: the default is the market overview also for a q
\* with a symbol.
DefaultSteps_AlwaysMarket(steps, symbol) ==
    IF steps # <<>> THEN steps
    ELSE << FStep(1, "market_overview", "summary", EmptyParams) >>

\* Variant of DefaultSteps: the default is taken only for a q with a
\* symbol.
DefaultSteps_OnlyWithSymbol(steps, symbol) ==
    IF steps # <<>> THEN steps
    ELSE IF symbol # <<>>
    THEN << FStep(1, "financial_ratios", "all", SymbolParams(symbol)),
            FStep(2, "technical_indicators", "summary", SymbolParams(symbol)) >>
    ELSE <<>>

\* if not steps: the default steps, for a q with a symbol and without.
DefaultSteps(steps, symbol) ==
    IF steps # <<>> THEN steps
    ELSE IF symbol # <<>>
    THEN << FStep(1, "financial_ratios", "all", SymbolParams(symbol)),
            FStep(2, "technical_indicators", "summary", SymbolParams(symbol)) >>
    ELSE << FStep(1, "market_overview", "summary", EmptyParams) >>

\* Planner._fallback_plan
fallback_plan(q) ==
    LET symbols == FallbackSymbols(q)
    IN [hasSteps |-> TRUE,
        steps |-> DefaultSteps(KeywordSteps(q), FirstSymbol(symbols)),
        intent |-> "Fallback plan",
        symbols |-> symbols]

\* --------------------------------------------------------- Synthesizer
\* The number of characters of a rendered payload that _format_results
\* keeps, and the marker it puts after a payload it has cut.
PayloadChars == 3000
TruncationMarker ==
    <<".", ".", ".", " ", "[", "t", "r", "u", "n", "c", "a", "t", "e", "d", "]">>
\* The texts of the section of a failed result: the text before the error,
\* and the default of r.get("error", "Unknown error").
ErrorText ==
    [prefix |-> <<"U+274C", " ", "E", "r", "r", "o", "r", ":", " ">>,
     unknown |-> <<"U", "n", "k", "n", "o", "w", "n", " ", "e", "r", "r", "o", "r">>]

\* json.dumps of the characters of a str, ensure_ascii=False: the quote, the
\* backslash and the newline are escaped, any other character is kept.
\* (The text is walked by halves.)
RECURSIVE JsonChars(_)
JsonChars(s) ==
    IF s = <<>> THEN <<>>
    ELSE IF Len(s) = 1
    THEN IF s[1] = "\"" THEN <<"\\", "\"">>
         ELSE IF s[1] = "\\" THEN <<"\\", "\\">>
         ELSE IF s[1] = "\n" THEN <<"\\", "n">>
         ELSE s
    ELSE LET h == Len(s) \div 2
         IN JsonChars(SubSeq(s, 1, h)) \o JsonChars(SubSeq(s, h + 1, Len(s)))

\* json.dumps(data, ensure_ascii=False, default=str) of the payloads
\* explored: a str, and the empty dict of a result without data.
NoData == [kind |-> "dict", chars |-> <<>>]
StrData(s) == [kind |-> "str", chars |-> s]
json_dumps(data) ==
    IF data.kind = "dict" THEN <<"{", "}">>
    ELSE <<"\"">> \o JsonChars(data.chars) \o <<"\"">>

\* Variant of Truncated: a rendering of exactly PayloadChars characters is
\* cut too.
Truncated_AtCeiling(data_str) ==
    IF Len(data_str) >= PayloadChars
    THEN FirstSlice(data_str, PayloadChars) \o TruncationMarker
    ELSE data_str

\* if len(data_str) > 3000: data_str = data_str[:3000] + "... [truncated]"
Truncated(data_str) ==
    IF Len(data_str) > PayloadChars
    THEN FirstSlice(data_str, PayloadChars) \o TruncationMarker
    ELSE data_str

\* header = f"### {tool} ({action})" and the newline after it.
SectionHeader(r) ==
    <<"### ", IF "tool" \in r.keys THEN r.tool ELSE "unknown", " (",
      IF "action" \in r.keys THEN r.action ELSE "", ")", "\n">>

\* The section _format_results makes of one result: the header and the
\* rendered data of a result whose success is truthy, the header and the
\* error text of any other.
Section(r) ==
    IF "success" \in r.keys /\ r.success
    THEN SectionHeader(r)
         \o Truncated(json_dumps(IF "data" \in r.keys THEN r.data ELSE NoData))
    ELSE SectionHeader(r)
         \o ErrorText.prefix \o (IF "error" \in r.keys THEN r.error ELSE ErrorText.unknown)

\* Synthesizer._format_results: the sections, which "\n\n".join makes the
\* text of the prompt.
format_results(rs) == [k \in 1..Len(rs) |-> Section(rs[k])]

\* ------------------------------------------------- AgentOrchestrator
\* Texts are sequences of tokens; a query is the sequence of its characters.
\* The fixed greeting text of chat.
GreetingText == <<"GREETING">>
\* The apology of chat's except branch, embedding str(e).
Apology(e) == <<"APOLOGY", e>>
\* The completion the LLM returns to the Synthesizer.
LLMAnswer == <<"ANSWER">>

\* _build_tool_summary: one line per result with the icon of
\* r.get("success", False), r.get("tool", "?") and r.get("action", "?"),
\* the intent of the plan when it has one, and the elapsed time (one token).
RECURSIVE SummaryLines(_)
SummaryLines(rs) ==
    IF rs = <<>> THEN <<>>
    ELSE LET r == Head(rs)
         IN << IF "success" \in r.keys /\ r.success THEN "OK" ELSE "FAIL",
               IF "tool" \in r.keys THEN r.tool ELSE "?",
               IF "action" \in r.keys THEN r.action ELSE "?" >>
            \o SummaryLines(Tail(rs))
\* plan.get("intent", "")
PlanIntent(p) == IF "intent" \in DOMAIN p THEN p.intent ELSE ""
build_tool_summary(p, rs) ==
    <<"---", "TOOLS">> \o SummaryLines(rs)
    \o (IF PlanIntent(p) # "" THEN <<"INTENT", PlanIntent(p)>> ELSE <<>>)
    \o <<"TIME", "---">>

\* The mappings without a parse_error key that the LLM's completion is
\* decoded to: all plans of at most one step, the plans of two steps with
\* an action the tool does not have and any parallel_group values, and a
\* mapping without the steps key.
BogusPairs == [1..2 -> {BogusRequest} \X PgValues]
ChatPlanChoices == StepChoices(0) \cup StepChoices(1) \cup BogusPairs

\* Variant of Reply: the exchange is returned without being recorded.
Reply_NotRecorded(q, text) ==
    /\ response' = text
    /\ cpc' = "done"
    /\ UNCHANGED <<history, appended, mcall>>

\* The two add_turn calls that end every path of chat, and the return.
Reply(q, text) ==
    /\ history' = add_turn(add_turn(history, "user", q), "assistant", text)
    /\ appended' = appended \o << [role |-> "user", content |-> q],
                                 [role |-> "assistant", content |-> text] >>
    /\ mcall' = [op |-> "add_turn", n |-> 0, prev |-> "add_turn"]
    /\ response' = text
    /\ cpc' = "done"

\* chat(q) for a greeting: the fixed text is recorded and returned.
ChatGreeting(q) ==
    /\ cpc \in {"idle", "done"}
    /\ is_greeting(q)
    /\ query' = q
    /\ nchats' = nchats + 1
    /\ stages' = <<>>
    /\ planned' = NoPlanned
    /\ context' = <<>>
    /\ caught' = ""
    /\ Reply(q, GreetingText)
    /\ UNCHANGED <<evars, maxTurns, offered, svars>>

\* chat(q) otherwise: memory.get_context(last_n=3), then
\* planner.create_plan is called and suspends in the LLM call.
ChatPlan(q) ==
    /\ cpc \in {"idle", "done"}
    /\ ~is_greeting(q)
    /\ query' = q
    /\ nchats' = nchats + 1
    /\ stages' = <<"planner">>
    /\ planned' = NoPlanned
    /\ context' = get_context(history, 3)
    /\ mcall' = Call("get_context", 3)
    /\ caught' = ""
    /\ cpc' = "planning"
    /\ UNCHANGED <<evars, history, response, maxTurns, appended, offered, svars>>

\* create_plan returns the mapping p; chat calls executor.execute_plan(p).
Execute(p, how) ==
    /\ cpc = "planning"
    /\ plan' = p
    /\ planned' = Planned(how, "mapping")
    /\ epc' = "start"
    /\ groups' = [k \in {} |-> <<>>]
    /\ order' = <<>>
    /\ gi' = 0
    /\ task' = [i \in 1..Len(p.steps) |-> NoTask]
    /\ allResults' = <<>>
    /\ eerror' = ""
    /\ stages' = Append(stages, "executor")
    /\ cpc' = "executing"
    /\ UNCHANGED <<query, history, response, nchats, maxTurns, context, appended, mcall,
                   caught, offered, svars>>

\* if "parse_error" in plan: plan = self._fallback_plan(query)
ParseErrorPlan(q) == fallback_plan(q)

\* generate_json decoded the completion to the mapping p, in which
\* create_plan finds no parse_error key: p is returned.
PlannerReturn(p) == Execute(p, "llm")

\* generate_json could not decode the completion and returned the mapping
\* with parse_error: create_plan returns the plan of _fallback_plan.
PlannerFallback == Execute(ParseErrorPlan(query), "fallback")

\* generate_json decoded the completion to a list (or a text), in which
\* create_plan finds no parse_error either: the list is returned, and
\* chat's plan.get raises AttributeError, which its except branch answers.
PlannerReturnList ==
    /\ cpc = "planning"
    /\ planned' = Planned("llm", "list")
    /\ caught' = "AttributeError"
    /\ Reply(query, Apology("AttributeError"))
    /\ UNCHANGED <<evars, query, stages, nchats, maxTurns, context, offered, svars>>

\* create_plan raises e: the LLM call raised ("LLMError"), or the completion
\* was decoded to a number or null, which the parse_error test cannot be
\* made on ("TypeError"); chat's except branch answers.
PlannerRaise(e) ==
    /\ cpc = "planning"
    /\ planned' = Planned("raised", "none")
    /\ caught' = e
    /\ Reply(query, Apology(e))
    /\ UNCHANGED <<evars, query, stages, nchats, maxTurns, context, offered, svars>>

\* Variant of ExecutorReturned: chat goes on while execute_plan is awaiting.
ExecutorReturned_Early == epc \in {"await", "returned"}

\* results = await self.executor.execute_plan(plan) has its value.
ExecutorReturned == epc = "returned"

\* execute_plan returned: synthesizer.synthesize is called and suspends in
\* the LLM call.
ChatSynthesize ==
    /\ cpc = "executing"
    /\ ExecutorReturned
    /\ stages' = Append(stages, "synthesizer")
    /\ cpc' = "synthesizing"
    /\ UNCHANGED <<evars, query, history, response, planned, nchats, maxTurns,
                   context, appended, mcall, caught, offered, svars>>

\* execute_plan raised: chat's except branch.
ChatExecRaised ==
    /\ cpc = "executing"
    /\ epc = "raised"
    /\ caught' = eerror
    /\ Reply(query, Apology(eerror))
    /\ UNCHANGED <<evars, query, stages, planned, nchats, maxTurns, context, offered, svars>>

\* synthesize returned: the tool summary is put in front of the answer, and
\* that text is recorded and returned.
SynthReturn ==
    /\ cpc = "synthesizing"
    /\ Reply(query, build_tool_summary(plan, allResults) \o <<"\n\n">> \o LLMAnswer)
    /\ UNCHANGED <<evars, query, stages, planned, nchats, maxTurns, context, caught, offered, svars>>

\* The LLM call of synthesize raises: chat's except branch.
SynthRaise ==
    /\ cpc = "synthesizing"
    /\ caught' = "LLMError"
    /\ Reply(query, Apology("LLMError"))
    /\ UNCHANGED <<evars, query, stages, planned, nchats, maxTurns, context, offered, svars>>

\* The exceptions create_plan is explored to raise.
PlannerErrors == {"LLMError", "TypeError"}

\* The steps of the Executor and the steps of chat after the call.
NextPipeline ==
    \/ cpc = "planning" /\ PlannerFallback
    \/ PlannerReturnList
    \/ \E e \in PlannerErrors : PlannerRaise(e)
    \/ ExecBegin
    \/ \E i \in 1..NSteps : StepStart(i)
    \/ \E i \in 1..NSteps : \E o \in {"data", "rejected", "TypeError", "Error"} : ToolSettle(i, o)
    \/ GroupSettle
    \/ ChatSynthesize
    \/ ChatExecRaised
    \/ SynthReturn
    \/ SynthRaise

\* A fresh orchestrator: no plan was made and the memory is empty.
Fresh ==
    /\ plan = NoStepsKeyPlan
    /\ epc = "idle"
    /\ groups = [k \in {} |-> <<>>]
    /\ order = <<>>
    /\ gi = 0
    /\ task = <<>>
    /\ eerror = ""
    /\ response = <<>>
    /\ stages = <<>>
    /\ planned = NoPlanned
    /\ nchats = 0
    /\ maxTurns = max_turns
    /\ context = <<>>
    /\ mcall = NoCall
    /\ caught = ""
    /\ offered = {}
    /\ sections = <<>>
    /\ dret = NoDirect
    /\ calls = <<>>
    /\ completion = <<>>

\* ------------------------------------- one chat on a fresh orchestrator
Queries == UNION {[1..n -> QueryChars] : n \in 0..MaxQueryLen}

InitChat ==
    /\ Fresh
    /\ allResults = <<>>
    /\ cpc = "idle"
    /\ query = <<>>
    /\ history = <<>>
    /\ appended = <<>>

NextChat ==
    \/ cpc = "idle" /\ \E q \in Queries : ChatGreeting(q)
    \/ cpc = "idle" /\ \E q \in Queries : ChatPlan(q)
    \/ cpc = "planning" /\ \E c \in ChatPlanChoices : PlannerReturn(PlanOf(c))
    \/ cpc = "planning" /\ PlannerReturn(NoStepsKeyPlan)
    \/ NextPipeline

SpecChat == InitChat /\ [][NextChat]_vars

\* --------------------------------- several chats on the same orchestrator
\* The queries of a session: a greeting and a question.
SessionQueries == {<<"h", "i">>, <<"e">>}

\* The history after k chats that each asked "hi".
GreetedHistory(k) ==
    [i \in 1..(2 * k) |->
        IF i % 2 = 1 THEN [role |-> "user", content |-> <<"h", "i">>]
        ELSE [role |-> "assistant", content |-> GreetingText]]

\* The orchestrator is fresh, or has answered max_turns - 1 greetings, so
\* that its memory is two turns below its budget.
InitSession ==
    /\ Fresh
    /\ allResults = <<>>
    /\ cpc = "idle"
    /\ query = <<>>
    /\ \E k \in {0, max_turns - 1} :
        /\ history = GreetedHistory(k)
        /\ appended = GreetedHistory(k)

\* The plans the LLM returns in a session: one without steps, and one whose
\* parallel_group keys do not sort.
SessionPlanChoices ==
    {<<>>, << <<BogusRequest, PgNull>>, <<BogusRequest, PgInt(1)>> >>}

\* nchats counts the calls made after that.
NextSession ==
    \/ nchats < MaxChats /\ \E q \in SessionQueries : ChatGreeting(q)
    \/ nchats < MaxChats /\ \E q \in SessionQueries : ChatPlan(q)
    \/ cpc = "planning" /\ \E c \in SessionPlanChoices : PlannerReturn(PlanOf(c))
    \/ NextPipeline

SpecSession == InitSession /\ [][NextSession]_vars

\* --------------------------------------- _fallback_plan called on a query
FallbackPlan ==
    /\ cpc = "fallback"
    /\ plan' = fallback_plan(query)
    /\ cpc' = "planned"
    /\ UNCHANGED <<epc, groups, order, gi, task, allResults, eerror, query, history,
                   response, stages, planned, nchats, maxTurns, context, appended,
                   mcall, caught, offered, svars>>

\* query.join with blanks.
RECURSIVE Join(_)
Join(ws) ==
    IF ws = <<>> THEN <<>>
    ELSE IF Tail(ws) = <<>> THEN Head(ws)
    ELSE Head(ws) \o <<" ">> \o Join(Tail(ws))

\* The words queries are made of: codes, a currency code, to compare, and.
QueryWords ==
    {<<"F", "P", "T">>,
     <<"V", "N", "M">>,
     <<"V", "N", "D">>,
     <<"S", "o", " ", "s", "U+00E1", "n", "h">>,
     <<"v", "U+00E0">>}
\* The phrases a query may start with: keywords of the branches, and a
\* word of four capitals.
Phrases ==
    {<<"p", "h", "U+00E2", "n", " ", "t", "U+00ED", "c", "h">>,
     <<"k", "h", "U+1ED1", "i", " ", "n", "g", "o", "U+1EA1", "i">>,
     <<"k", "h", "U+1ED1", "i", " ", "n", "g", "o", "U+1EA1", "i", " ", "m", "u", "a">>,
     <<"f", "o", "r", "e", "i", "g", "n", " ", "b", "U+00E1", "n">>,
     <<"T", "i", "n", " ", "t", "U+1EE9", "c">>,
     <<"l", "U+1ECD", "c">>,
     <<"s", "c", "r", "e", "e", "n", " ", "g", "r", "o", "w", "t", "h">>,
     <<"t", "h", "U+1ECB", " ", "t", "r", "U+01B0", "U+1EDD", "n", "g">>,
     <<"U+0111", "U+1ECB", "n", "h", " ", "g", "i", "U+00E1">>,
     <<"r", "s", "i">>,
     <<"r", "U+1EE7", "i", " ", "r", "o">>,
     <<"d", "U+00F2", "n", "g", " ", "t", "i", "U+1EC1", "n">>,
     <<"t", "U+00E0", "i", " ", "c", "h", "U+00ED", "n", "h">>,
     <<"b", "U+00E1", "o", " ", "c", "U+00E1", "o">>,
     <<"b", "U+00E1", "o", " ", "c", "U+00E1", "o", " ", "t", "u", "U+1EA7", "n">>,
     <<"b", "U+00E1", "o", " ", "c", "U+00E1", "o", " ", "t", "U+00E0", "i", " ", "c", "h", "U+00ED", "n", "h">>,
     <<"t", "U+00ED", "n", "h">>,
     <<"t", "U+00ED", "n", "h", " ", "t", "h", "u", "U+1EBF">>,
     <<"m", "a", "r", "g", "i", "n">>,
     <<"l", "U+00E0", " ", "g", "U+00EC", "?">>,
     <<"q", "u", "i", "z">>,
     <<"h", "U+01B0", "U+1EDB", "n", "g", " ", "d", "U+1EAB", "n">>,
     <<"c", "a", "s", "e", " ", "s", "t", "u", "d", "y">>,
     <<"d", "a", "n", "h", " ", "m", "U+1EE5", "c">>,
     <<"w", "a", "t", "c", "h", "l", "i", "s", "t", " ", "t", "h", "U+00EA", "m">>,
     <<"x", "U+1EBF", "p", " ", "h", "U+1EA1", "n", "g">>,
     <<"c", "U+1EA3", "n", "h", " ", "b", "U+00E1", "o">>,
     <<"a", "l", "e", "r", "t", " ", "c", "h", "e", "c", "k">>,
     <<"A", "B", "C", "D">>}

\* The queries explored: at most MaxWords words, after one of the phrases
\* or after none.
InitFallback ==
    /\ Fresh
    /\ allResults = <<>>
    /\ cpc = "fallback"
    /\ history = <<>>
    /\ appended = <<>>
    /\ \E n \in 0..MaxWords : \E w \in [1..n -> QueryWords] :
        \/ query = Join(w)
        \/ \E p \in Phrases : query = Join(<<p>> \o w)

SpecFallback == InitFallback /\ [][FallbackPlan]_vars

\* ---------------------------------- AgentOrchestrator.direct_tool_call
\* Variant of direct_return: an exception of tool.run leaves
\* direct_tool_call.
direct_return_Propagates(d, o) ==
    IF o = "data" THEN [d EXCEPT !.how = "returned", !.success = TRUE]
    ELSE IF o = "rejected"
    THEN [d EXCEPT !.how = "returned", !.error = "action_invalid"]
    ELSE [d EXCEPT !.how = "raised", !.error = o]

\* What direct_tool_call returns when its tool.run ended with outcome o: the
\* dict of the tool, or {"success": False, "error": str(e)}.
direct_return(d, o) ==
    IF o = "data" THEN [d EXCEPT !.how = "returned", !.success = TRUE]
    ELSE IF o = "rejected"
    THEN [d EXCEPT !.how = "returned", !.error = "action_invalid"]
    ELSE [d EXCEPT !.how = "returned", !.error = o]

\* direct_tool_call(name, action, **params) up to its await: the failure
\* dict of a tool that is not registered, else tool.run is called.
DirectToolCall(name, action, symbol) ==
    /\ cpc \in {"idle", "done"}
    /\ LET d == [NoDirect EXCEPT !.tool = name, !.action = action]
       IN IF get_tool(name).found
          THEN /\ dret' = [d EXCEPT !.how = "running"]
               /\ task' = << [NoTask EXCEPT !.pc = "run1", !.calls = 1,
                                            !.received = <<symbol>>] >>
               /\ cpc' = "tool"
          ELSE /\ dret' = [d EXCEPT !.how = "returned", !.error = "tool_missing"]
               /\ task' = << NoTask >>
               /\ cpc' = "idle"
    /\ UNCHANGED <<plan, epc, groups, order, gi, allResults, eerror, query, history,
                   response, stages, planned, nchats, maxTurns, context, appended,
                   mcall, caught, offered, sections, calls, completion>>

\* The suspended tool.run ends with outcome o and direct_tool_call returns.
DirectSettle(o) ==
    /\ cpc = "tool"
    /\ o \in ToolOutcomes(dret.action)
    /\ task' = [task EXCEPT ![1] = [@ EXCEPT !.pc = "done", !.outcomes = Append(@, o)]]
    /\ dret' = direct_return(dret, o)
    /\ cpc' = "idle"
    /\ UNCHANGED <<plan, epc, groups, order, gi, allResults, eerror, query, history,
                   response, stages, planned, nchats, maxTurns, context, appended,
                   mcall, caught, offered, sections, calls, completion>>

\* The queries of the chat calls made between direct calls and of the chat
\* calls that overlap: greetings and others.
CallQueries == {<<"h", "i">>, <<"h", "e", "y">>, <<"H", "i", " ">>, <<"e">>, <<"y">>}

\* Direct calls and greeting chats on one orchestrator, one after the other.
NextDirect ==
    \/ \E name \in {KnownTool, UnknownTool} : \E action \in {ValidAction, BogusAction} :
        \E symbol \in {NoSymbol, ScalarSymbol} : DirectToolCall(name, action, symbol)
    \/ \E o \in {"data", "rejected", "TypeError", "Error"} : DirectSettle(o)
    \/ nchats < MaxChats /\ \E q \in CallQueries : ChatGreeting(q)

SpecDirect == InitChat /\ [][NextDirect]_vars

\* ----------------------------------- Synthesizer.synthesize on results
\* synthesize up to its await: the results are formatted into the prompt
\* and llm.generate is called.
SynthesizeCall ==
    /\ cpc = "synth"
    /\ sections' = format_results(allResults)
    /\ stages' = Append(stages, "llm")
    /\ cpc' = "generating"
    /\ UNCHANGED <<evars, query, history, response, planned, nchats, maxTurns,
                   context, appended, mcall, caught, offered, dret, calls,
                   completion>>

\* llm.generate returns a completion, which synthesize returns.
GenerateReturn(text) ==
    /\ cpc = "generating"
    /\ completion' = text
    /\ response' = text
    /\ cpc' = "synthesized"
    /\ UNCHANGED <<evars, query, history, stages, planned, nchats, maxTurns,
                   context, appended, mcall, caught, offered, sections, dret, calls>>

\* llm.generate raises, and so does synthesize.
GenerateRaise ==
    /\ cpc = "generating"
    /\ caught' = "LLMError"
    /\ cpc' = "synth_raised"
    /\ UNCHANGED <<evars, query, history, response, stages, planned, nchats,
                   maxTurns, context, appended, mcall, offered, svars>>

\* A successful result with its data, one without a data key, and a failed
\* result with its error.
OkResult(data) ==
    [keys |-> {"step", "tool", "action", "success", "data"},
     tool |-> KnownTool, action |-> ValidAction, success |-> TRUE,
     data |-> data, error |-> <<>>]
BareResult ==
    [keys |-> {"step", "tool", "action", "success"},
     tool |-> KnownTool, action |-> ValidAction, success |-> TRUE,
     data |-> NoData, error |-> <<>>]
FailedResult(error) ==
    [keys |-> {"step", "tool", "action", "success", "error"},
     tool |-> KnownTool, action |-> BogusAction, success |-> FALSE,
     data |-> NoData, error |-> error]

\* The payloads explored: a str of letters whose rendering is up to MaxSlack
\* characters shorter or longer than PayloadChars, alone or with a quote or a
\* letter with a diacritic at its end.
Payloads ==
    {StrData(Fill(PayloadChars - 2 + d - Len(t), "a") \o t) :
        d \in (0 - MaxSlack)..MaxSlack, t \in {<<>>, <<"\"">>, <<"U+00E1">>}}
\* The results explored: with these payloads, without data, and failed with
\* a short error or one longer than a cut payload with its marker.
ResultChoices ==
    {OkResult(d) : d \in Payloads} \cup {BareResult}
    \cup {FailedResult(e) :
            e \in {<<"e">>, Fill(PayloadChars + Len(TruncationMarker) + MaxSlack, "e")}}
\* The results that follow the first one: a payload that is cut, no data,
\* and a long error.
MoreResults ==
    {OkResult(StrData(Fill(PayloadChars + MaxSlack, "a"))), BareResult,
     FailedResult(Fill(PayloadChars + Len(TruncationMarker) + MaxSlack, "e"))}
\* The completions of the LLM explored.
Completions == {LLMAnswer, <<>>}

InitSynth ==
    /\ Fresh
    /\ cpc = "synth"
    /\ query = <<"q">>
    /\ history = <<>>
    /\ appended = <<>>
    /\ \E n \in 1..MaxResults : \E r \in ResultChoices :
        \E more \in [1..(n - 1) -> MoreResults] : allResults = <<r>> \o more

NextSynth ==
    \/ SynthesizeCall
    \/ \E text \in Completions : GenerateReturn(text)
    \/ GenerateRaise

SpecSynth == InitSynth /\ [][NextSynth]_vars

\* ------------------------- chat calls that overlap on one orchestrator
\* A chat call in progress: pc is "planning", "executing" or "synthesizing"
\* while the call is suspended in create_plan, execute_plan or synthesize,
\* and "done" once it has returned; at is the length of the history when the
\* call began.
\* (The Executor of an overlapping call is not followed step by step: the
\* plan has one step, on which the call is suspended in tool.run.)
OverlapPlan == PlanOf(<< <<ScalarRequest, PgAbsent>> >>)
OverlapResults ==
    << [keys |-> {"step", "tool", "action", "success", "data"}, idx |-> 1,
        step |-> OverlapPlan.steps[1].step, tool |-> OverlapPlan.steps[1].tool,
        action |-> OverlapPlan.steps[1].action, success |-> TRUE, error |-> "",
        data |-> OkDict] >>

\* Variant of OverlapReply: the user turn is recorded where the history
\* ended when the call began, as if it was added before the first await.
OverlapReply_UserTurnFirst(c, text) ==
    LET at == IF calls[c].at < Len(history) THEN calls[c].at ELSE Len(history)
        user == [role |-> "user", content |-> calls[c].query]
    IN /\ history' = add_turn(SubSeq(history, 1, at) \o <<user>>
                              \o SubSeq(history, at + 1, Len(history)),
                              "assistant", text)
       /\ appended' = appended \o << user, [role |-> "assistant", content |-> text] >>
       /\ mcall' = [op |-> "add_turn", n |-> 0, prev |-> "add_turn"]
       /\ calls' = [calls EXCEPT ![c] = [@ EXCEPT !.pc = "done", !.response = text]]

\* The two add_turn calls and the return that end call c: no await lies
\* between them.
OverlapReply(c, text) ==
    /\ history' = add_turn(add_turn(history, "user", calls[c].query), "assistant", text)
    /\ appended' = appended \o << [role |-> "user", content |-> calls[c].query],
                                 [role |-> "assistant", content |-> text] >>
    /\ mcall' = [op |-> "add_turn", n |-> 0, prev |-> "add_turn"]
    /\ calls' = [calls EXCEPT ![c] = [@ EXCEPT !.pc = "done", !.response = text]]

\* chat(q) is called while other calls are suspended: a greeting is answered
\* at once, any other query suspends the call in create_plan.
OverlapChat(q) ==
    /\ cpc = "overlap"
    /\ nchats < MaxChats
    /\ nchats' = nchats + 1
    /\ IF is_greeting(q)
       THEN /\ history' = add_turn(add_turn(history, "user", q), "assistant", GreetingText)
            /\ appended' = appended \o << [role |-> "user", content |-> q],
                                         [role |-> "assistant", content |-> GreetingText] >>
            /\ mcall' = [op |-> "add_turn", n |-> 0, prev |-> "add_turn"]
            /\ calls' = Append(calls, [pc |-> "done", query |-> q,
                                       response |-> GreetingText, at |-> Len(history)])
            /\ UNCHANGED context
       ELSE /\ context' = get_context(history, 3)
            /\ mcall' = Call("get_context", 3)
            /\ calls' = Append(calls, [pc |-> "planning", query |-> q,
                                       response |-> <<>>, at |-> Len(history)])
            /\ UNCHANGED <<history, appended>>
    /\ UNCHANGED <<evars, cpc, query, response, stages, planned, maxTurns, caught,
                   offered, sections, dret, completion>>

\* The await of call c ends and the call runs on to its next await:
\* create_plan returned and execute_plan is suspended, or execute_plan
\* returned and synthesize is suspended.
OverlapResume(c) ==
    /\ cpc = "overlap"
    /\ calls[c].pc \in {"planning", "executing"}
    /\ calls' = [calls EXCEPT ![c] =
            [@ EXCEPT !.pc = IF @ = "planning" THEN "executing" ELSE "synthesizing"]]
    /\ UNCHANGED <<evars, cpc, query, history, response, stages, planned, nchats,
                   maxTurns, context, appended, mcall, caught, offered, sections,
                   dret, completion>>

\* synthesize of call c returned the completion text: the call records the
\* exchange and returns.
OverlapAnswer(c, text) ==
    /\ cpc = "overlap"
    /\ calls[c].pc = "synthesizing"
    /\ OverlapReply(c, build_tool_summary(OverlapPlan, OverlapResults) \o <<"\n\n">> \o text)
    /\ UNCHANGED <<evars, cpc, query, response, stages, planned, nchats, maxTurns,
                   context, caught, offered, sections, dret, completion>>

\* The await of call c ends by raising e: chat's except branch.
OverlapRaise(c, e) ==
    /\ cpc = "overlap"
    /\ calls[c].pc \in {"planning", "executing", "synthesizing"}
    /\ OverlapReply(c, Apology(e))
    /\ UNCHANGED <<evars, cpc, query, response, stages, planned, nchats, maxTurns,
                   context, caught, offered, sections, dret, completion>>

\* The orchestrator is fresh, or one exchange below the budget of its memory.
InitOverlap ==
    /\ Fresh
    /\ allResults = <<>>
    /\ cpc = "overlap"
    /\ query = <<>>
    /\ \E k \in {0, max_turns - 1} :
        /\ history = GreetedHistory(k)
        /\ appended = GreetedHistory(k)

NextOverlap ==
    \/ \E q \in CallQueries : OverlapChat(q)
    \/ \E c \in 1..Len(calls) : OverlapResume(c)
    \/ \E c \in 1..Len(calls) : \E text \in Completions : OverlapAnswer(c, text)
    \/ \E c \in 1..Len(calls) : \E e \in PlannerErrors : OverlapRaise(c, e)

SpecOverlap == InitOverlap /\ [][NextOverlap]_vars

\* ================================================================ claims
\* The group a step counts in: its integer parallel_group, 1 when the key is
\* absent (None, which only a plan whose keys are all None returns with, is 0).
ClaimGroup(i) ==
    IF Step(i).pg.kind = "int" THEN Step(i).pg.n
    ELSE IF Step(i).pg.kind = "absent" THEN 1 ELSE 0

\* The positions in all_results that hold the result of step i.
ResultsOf(i) == {k \in 1..Len(allResults) : allResults[k].idx = i}

\* execute_plan returned for a plan that has steps.
Returned == epc = "returned" /\ plan.steps # <<>>

\* C1: the results execute_plan returns are those of the plan's steps,
\* ordered by ascending parallel_group (1 when the key is absent) and, inside
\* one group, by the position of the step in plan.steps.
C1_ResultOrder ==
    Returned =>
        /\ \A i \in 1..NSteps : ResultsOf(i) # {}
        /\ \A a \in 1..Len(allResults) : \A b \in 1..Len(allResults) :
            LET i == allResults[a].idx
                j == allResults[b].idx
            IN /\ allResults[a].step = Step(i).step
               /\ allResults[a].tool = Step(i).tool
               /\ a < b => \/ ClaimGroup(i) < ClaimGroup(j)
                           \/ ClaimGroup(i) = ClaimGroup(j) /\ i < j

\* C1 witness: the plan [{step:1,group:2},{step:2,group:1},{step:3,group:2}]
\* has returned [result of step 2, result of step 1, result of step 3].
C1_Witness ==
    /\ Returned
    /\ NSteps = 3
    /\ Step(1).pg = PgInt(2)
    /\ Step(2).pg = PgInt(1)
    /\ Step(3).pg = PgInt(2)
    /\ allResults[1].step = 2
    /\ allResults[2].step = 1
    /\ allResults[3].step = 3

\* Step i ended in one of the failures of C2: its tool is not registered,
\* the tool rejected the action, or the last tool.run raised.
StepFailed(i) ==
    /\ task[i].pc = "done"
    /\ \/ Step(i).tool = UnknownTool
       \/ /\ task[i].outcomes # <<>>
          /\ task[i].outcomes[Len(task[i].outcomes)] \in {"rejected", "TypeError", "Error"}

\* C2: the StepResult of a step whose tool is missing, whose action the tool
\* rejected or whose tool.run raised has success = false and carries the
\* error description.
C2_FailedStepMarkedFailed ==
    epc = "returned" =>
        \A k \in 1..Len(allResults) :
            LET r == allResults[k] IN
            (r.idx > 0 /\ StepFailed(r.idx)) =>
                /\ "success" \in r.keys /\ r.success = FALSE
                /\ "error" \in r.keys /\ r.error # ""

\* Step j broke: its coroutine raised, its tool is missing, or a tool.run of
\* it raised.
StepBroke(j) ==
    /\ task[j].pc = "done"
    /\ \/ task[j].raised
       \/ Step(j).tool = UnknownTool
       \/ \E k \in 1..Len(task[j].outcomes) : task[j].outcomes[k] \in {"TypeError", "Error"}

\* Step i was executed: its coroutine ran to its end, and its tool.run was
\* entered when the tool exists and the params unpack.
StepExecuted(i) ==
    /\ task[i].pc = "done"
    /\ (get_tool(Step(i).tool).hashable /\ get_tool(Step(i).tool).found
        /\ Step(i).params.mapping) => task[i].calls >= 1

\* C3: once a step has broken, execute_plan still ends by returning, with
\* every step executed and holding a result of its own.
C3_FailureIsolation ==
    (epc \in {"returned", "raised"} /\ \E j \in 1..NSteps : StepBroke(j)) =>
        /\ epc = "returned"
        /\ \A i \in 1..NSteps : StepExecuted(i) /\ Cardinality(ResultsOf(i)) = 1

\* C3 witness: the tool.run of the first step raised, and the second step,
\* of the same group, was run and returned the tool's data.
C3_Witness ==
    /\ Returned
    /\ NSteps = 2
    /\ ClaimGroup(1) = ClaimGroup(2)
    /\ task[1].outcomes = <<"Error">>
    /\ task[2].calls = 1
    /\ task[2].ret = OkDict

\* C4: a step of a later group is not created, resolved or invoked before
\* every step of every earlier group has ended, and the steps of one group
\* are created together.
C4_GroupBarrier ==
    \A i \in 1..NSteps : \A j \in 1..NSteps :
        /\ (ClaimGroup(i) < ClaimGroup(j) /\ task[j].pc # "none") => task[i].pc = "done"
        /\ (ClaimGroup(i) = ClaimGroup(j) /\ task[j].pc # "none") => task[i].pc # "none"

\* C4 witness: a step of the first group is suspended in its tool while a
\* step of a later group has not been created.
C4_Witness ==
    \E i \in 1..NSteps : \E j \in 1..NSteps :
        /\ ClaimGroup(i) < ClaimGroup(j)
        /\ task[i].pc = "run1"
        /\ task[j].pc = "none"

\* C5: execute_plan returns as many results as the plan has steps, exactly
\* one for each step.
C5_OneResultPerStep ==
    Returned =>
        /\ Len(allResults) = NSteps
        /\ \A i \in 1..NSteps : Cardinality(ResultsOf(i)) = 1

\* C5 witness: two steps, one result marked failed and one marked succeeded.
C5_Witness ==
    /\ Returned
    /\ NSteps = 2
    /\ \E a \in 1..2 : \E b \in 1..2 : allResults[a].success /\ ~allResults[b].success

C7_AtMostOnce == \A i \in 1..NSteps : task[i].calls <= 1

\* C7: the tool.run of a step is entered at most twice, and a second time
\* only when the first raised a TypeError.
C7_RetryOnlyOnTypeError ==
    \A i \in 1..NSteps :
        /\ task[i].calls <= 2
        /\ task[i].calls = 2 => task[i].outcomes[1] = "TypeError"
        /\ (task[i].outcomes # <<>> /\ task[i].outcomes[1] # "TypeError") => task[i].calls = 1
        /\ Len(task[i].outcomes) <= task[i].calls

\* C7 witness: a step whose first tool.run raised a TypeError and whose
\* second tool.run has ended too.
C7_Witness ==
    \E i \in 1..NSteps :
        /\ task[i].calls = 2
        /\ Len(task[i].outcomes) = 2
        /\ task[i].pc = "done"

\* C8: execute_plan does not raise, whatever the values of the steps are.
C8_NeverRaises == epc # "raised"

\* C9: a tool.run of a step whose params.symbol is a list gets the first
\* element of the list as its symbol.
C9_SymbolCoerced ==
    \A i \in 1..NSteps : \A k \in 1..Len(task[i].received) :
        Step(i).params.symbol.kind = "list" =>
            task[i].received[k] =
                [kind |-> "scalar", elems |-> <<Head(Step(i).params.symbol.elems)>>]

\* The query, lower-cased and stripped, equals a greeting phrase or starts
\* with one.
ClaimGreets(q) ==
    LET s == Strip(Lower(q)) IN
    \E k \in 1..Len(Greetings) :
        LET g == Greetings[k] IN
        \/ s = g
        \/ Len(s) >= Len(g) /\ \A m \in 1..Len(g) : s[m] = g[m]

\* C10: for a query that matches a greeting phrase chat returns the fixed
\* greeting text, and invokes neither the Planner, the Executor, a tool nor
\* the Synthesizer.
C10_GreetingShortCircuit ==
    ClaimGreets(query) =>
        /\ cpc = "done"
        /\ response = GreetingText
        /\ stages = <<>>
        /\ epc = "idle"
        /\ task = <<>>

\* C10 witness: chat has answered a greeting that is written with an
\* upper-case letter and with a space before or after it.
C10_Witness ==
    /\ cpc = "done"
    /\ ClaimGreets(query)
    /\ Strip(query) # query
    /\ Lower(query) # query
    /\ response = GreetingText

\* The tokens of the execution summary that chat puts in front of an answer.
SummaryTokens == {"---", "TOOLS", "OK", "FAIL", "INTENT", "TIME"}

\* chat ended on its normal path: the three stages ran and nothing was
\* caught.
NormalPath ==
    /\ cpc = "done"
    /\ stages = <<"planner", "executor", "synthesizer">>
    /\ caught = ""

\* C11: on the normal path the assistant turn chat stores holds the
\* Synthesizer's output only, and no stored turn holds a part of the
\* execution summary.
C11_StoredUndecorated ==
    NormalPath =>
        /\ history[Len(history)] = [role |-> "assistant", content |-> LLMAnswer]
        /\ \A k \in 1..Len(history) : \A m \in 1..Len(history[k].content) :
            history[k].content[m] \notin SummaryTokens

\* C12: when planning, execution or synthesis raised, chat has ended by
\* returning the apology that embeds the exception's message, and the last
\* two turns of the memory are the user's query and that apology.
C12_ErrorAnswered ==
    caught # "" =>
        /\ cpc = "done"
        /\ response = <<"APOLOGY", caught>>
        /\ Len(history) >= 2
        /\ history[Len(history) - 1] = [role |-> "user", content |-> query]
        /\ history[Len(history)] = [role |-> "assistant", content |-> response]

\* C12 witness: execute_plan raised on parallel_group keys that do not sort
\* and chat answered with the apology for the TypeError.
C12_Witness ==
    /\ cpc = "done"
    /\ epc = "raised"
    /\ caught = "TypeError"
    /\ response = <<"APOLOGY", "TypeError">>
    /\ Len(history) = 2

\* C13: between chat calls the memory has been given two turns per call, the
\* user turn with the query and then the assistant turn with the returned
\* text, and the history has even length with roles alternating user,
\* assistant.
C13_TwoTurnsPerChat ==
    cpc \in {"idle", "done"} =>
        /\ Len(appended) - 2 * nchats \in {0, 2 * (max_turns - 1)}
        /\ Len(history) % 2 = 0
        /\ \A k \in 1..Len(history) :
            history[k].role = IF k % 2 = 1 THEN "user" ELSE "assistant"
        /\ nchats > 0 =>
            /\ appended[Len(appended) - 1] = [role |-> "user", content |-> query]
            /\ appended[Len(appended)] = [role |-> "assistant", content |-> response]
            /\ SubSeq(history, Len(history) - 1, Len(history))
                = SubSeq(appended, Len(appended) - 1, Len(appended))

\* C13 witness: two chats were made on an orchestrator whose memory was two
\* turns below its budget, so that the oldest exchange was dropped; the
\* first of the two was not a greeting.
C13_Witness ==
    /\ cpc = "done"
    /\ nchats = 2
    /\ Len(appended) = 2 * max_turns + 2
    /\ Len(history) = 2 * max_turns
    /\ history[2 * max_turns - 3].content = <<"e">>

\* C14: the stages of a request are invoked in the order planner, executor,
\* synthesizer and each at most once; the executor only after create_plan
\* returned, the synthesizer only after execute_plan returned, the memory is
\* written only at the end of the request, and after a stage raised no later
\* stage is invoked.
C14_LifecycleOrder ==
    /\ \E n \in 0..3 : stages = SubSeq(<<"planner", "executor", "synthesizer">>, 1, n)
    /\ Len(stages) >= 2 => planned.how \in {"llm", "fallback"} /\ planned.value = "mapping"
    /\ Len(stages) >= 3 => epc = "returned" /\ Len(allResults) >= NSteps
    /\ history # <<>> => cpc = "done"
    /\ cpc = "done" =>
        \/ stages = <<>> /\ response = GreetingText
        \/ caught # ""
        \/ Len(stages) = 3
    /\ (planned.how = "raised" \/ planned.value = "list") => stages = <<"planner">>
    /\ epc = "raised" => stages = <<"planner", "executor">>

\* C14 witness: a request with a plan of two steps went through the three
\* stages and ended with the memory written.
C14_Witness ==
    /\ NormalPath
    /\ NSteps = 2
    /\ Len(allResults) = 2
    /\ Len(history) = 2

\* C15: get_context(0) is the empty text, get_context(n) on an empty history
\* is the empty text, and get_context(n) right after clear() is the empty
\* text.
C15_EmptyContext ==
    (mcall.op = "get_context" /\ (mcall.n = 0 \/ history = <<>> \/ mcall.prev = "clear"))
        => context = <<>>

\* The smaller of two numbers.
Min(a, b) == IF a < b THEN a ELSE b

\* C16: the history holds at most 2 * max_turns turns, and they are the most
\* recent of the turns appended, in the order they were appended.
C16_SlidingWindow ==
    /\ Len(history) <= 2 * maxTurns
    /\ Len(history) = Min(2 * maxTurns, Len(appended))
    /\ history = SubSeq(appended, Len(appended) - Len(history) + 1, Len(appended))

\* The entities the memory holds as active: a ConversationMemory has
\* max_turns and history, and a turn has role, content and timestamp, so it
\* holds none.
ActiveEntities == {}

\* C17: the active entity set is the entity set of the most recent turn
\* given with entities (a turn without entities leaves it), and is empty
\* after clear().
C17_ActiveEntitySet == cpc = "memory" => ActiveEntities = offered

\* C18: create_plan returns what the LLM's completion was decoded to only
\* when that is a mapping with a non-empty steps list, and does not raise on
\* a completion that is not.
C18_PlanValidated ==
    /\ planned.how = "llm" =>
        /\ planned.value = "mapping"
        /\ plan.hasSteps
        /\ plan.steps # <<>>
    /\ planned.how = "raised" => caught = "LLMError"

\* C19: the plan _fallback_plan returns has a steps list that is not empty
\* and a symbols field.
C19_FallbackNonEmpty ==
    cpc = "planned" =>
        /\ plan.hasSteps
        /\ plan.steps # <<>>
        /\ "symbols" \in DOMAIN plan

\* C19 witness: a query with a valuation keyword and no symbol, whose branch
\* emits nothing, got the market overview step of the default.
C19_Witness ==
    /\ cpc = "planned"
    /\ AnyIn(Kw.valuation, Lower(query))
    /\ plan.symbols = <<>>
    /\ Len(plan.steps) = 1
    /\ plan.steps[1].tool = "market_overview"

\* "so sanh", to compare.
CompareWord == <<"s", "o", " ", "s", "U+00E1", "n", "h">>

\* The symbol parameters of the steps of the plan.
StepSymbols == {plan.steps[i].params.symbol : i \in 1..Len(plan.steps)}

\* C20: the fallback plan of a comparison query that names two entities or
\* more has a step for each entity named, each step with one scalar symbol.
C20_ComparisonFanOut ==
    (/\ cpc = "planned"
     /\ Contains(Lower(query), CompareWord)
     /\ Cardinality({plan.symbols[k] : k \in 1..Len(plan.symbols)}) >= 2) =>
        /\ Len(plan.steps) >= Cardinality({plan.symbols[k] : k \in 1..Len(plan.symbols)})
        /\ \A k \in 1..Len(plan.symbols) :
            [kind |-> "scalar", elems |-> <<plan.symbols[k]>>] \in StepSymbols
        /\ \A y \in StepSymbols : y.kind # "list"

\* The keyword groups of the fallback planner, in the order of its if/elif
\* chain, and whether q matches one of them.
KeywordGroups ==
    <<Kw.analyze, Kw.foreign, Kw.news, Kw.screen, Kw.market, Kw.valuation,
      Kw.technical, Kw.risk, Kw.money_flow, Kw.financial, Kw.report,
      Kw.calculator, Kw.education, Kw.social, Kw.alerts>>
MatchesGroup(q) == \E g \in 1..Len(KeywordGroups) : AnyIn(KeywordGroups[g], Lower(q))
MarketOverviewOnly == << FStep(1, "market_overview", "summary", EmptyParams) >>

\* C21 as stated: for a query that matches none of the keyword groups the
\* fallback plan is a single market_overview step, with or without a code in
\* the query.
C21_DefaultMarketOverview ==
    (cpc = "planned" /\ ~MatchesGroup(query)) => plan.steps = MarketOverviewOnly

\* C21 amended: for a query that matches none of the keyword groups the
\* fallback plan is a single market_overview step when the query has no
\* symbol, and the two steps financial_ratios/all and
\* technical_indicators/summary on the first symbol when it has one.
C21_DefaultBySymbol ==
    (cpc = "planned" /\ ~MatchesGroup(query)) =>
        LET symbols == FallbackSymbols(query)
        IN IF symbols = <<>>
           THEN plan.steps = MarketOverviewOnly
           ELSE /\ Len(plan.steps) = 2
                /\ plan.steps[1].tool = "financial_ratios"
                /\ plan.steps[1].action = "all"
                /\ plan.steps[2].tool = "technical_indicators"
                /\ plan.steps[2].action = "summary"
                /\ \A i \in 1..2 : plan.steps[i].params = SymbolParams(symbols[1])

\* A query with a symbol and no keyword has been planned.
C21_Witness ==
    /\ cpc = "planned"
    /\ ~MatchesGroup(query)
    /\ FallbackSymbols(query) # <<>>
    /\ Len(plan.steps) = 2

\* The payload part of section k: what follows the header and its newline.
PayloadPart(k) ==
    SubSeq(sections[k], Len(SectionHeader(allResults[k])) + 1, Len(sections[k]))
\* synthesize has formatted the results it was called on.
Formatted == cpc \in {"generating", "synthesized", "synth_raised"}

\* C22: the section of a successful result whose rendering is longer than
\* 3000 characters holds the first 3000 characters of the rendering and then
\* the truncation marker; a rendering of at most 3000 characters is in the
\* section whole, without the marker; and what synthesize returns is the
\* completion of the LLM, unchanged.
C22_PayloadTruncation ==
    /\ Formatted =>
        /\ Len(sections) = Len(allResults)
        /\ \A k \in 1..Len(allResults) :
            LET r == allResults[k]
                rendering == json_dumps(IF "data" \in r.keys THEN r.data ELSE NoData)
                part == PayloadPart(k)
            IN r.success =>
                IF Len(rendering) > PayloadChars
                THEN /\ Len(part) = PayloadChars + Len(TruncationMarker)
                     /\ \A i \in 1..PayloadChars : part[i] = rendering[i]
                     /\ SubSeq(part, PayloadChars + 1, Len(part)) = TruncationMarker
                ELSE part = rendering
    /\ cpc = "synthesized" => response = completion

\* synthesize has returned the completion for results of which one has a
\* rendering of exactly 3000 characters and one a longer rendering.
C22_Witness ==
    /\ cpc = "synthesized"
    /\ response = LLMAnswer
    /\ \E k \in 1..Len(allResults) :
        /\ allResults[k].success
        /\ Len(json_dumps(allResults[k].data)) = PayloadChars
        /\ Len(PayloadPart(k)) = PayloadChars
    /\ \E k \in 1..Len(allResults) :
        /\ allResults[k].success
        /\ Len(json_dumps(allResults[k].data)) > PayloadChars
        /\ Len(PayloadPart(k)) = PayloadChars + Len(TruncationMarker)

\* The error text in the section of a failed result: what follows the
\* header and the text before the error.
ErrorPart(k) ==
    SubSeq(sections[k], Len(SectionHeader(allResults[k])) + Len(ErrorText.prefix) + 1,
           Len(sections[k]))

\* C25: in every section, of a successful result or of a failed one, the
\* payload part (the rendered data or the error text) has at most 3000
\* characters plus the truncation marker.
C25_SectionBounded ==
    Formatted =>
        \A k \in 1..Len(sections) :
            Len(IF allResults[k].success THEN PayloadPart(k) ELSE ErrorPart(k))
                <= PayloadChars + Len(TruncationMarker)

\* The mark of line k of the execution summary in the answer, and the number
\* of lines of the summary.
LineMark(k) == response[2 + 3 * (k - 1) + 1]
SummaryMarks == {k \in 1..Len(response) : response[k] \in {"OK", "FAIL"}}

\* C23: the execution summary in the answer has one line per executed step;
\* the line of a step whose tool is missing, whose action the tool rejected
\* or whose tool call raised carries the failure mark, and only it; and the
\* request of a plan with such a step ends with an answer.
C23_FailuresMarked ==
    (NormalPath /\ NSteps >= 1) =>
        /\ Cardinality(SummaryMarks) = NSteps
        /\ \A k \in 1..Len(allResults) :
            LET r == allResults[k]
            IN r.idx > 0 => (LineMark(k) = "FAIL" <=> StepFailed(r.idx))

\* direct_tool_call has been called, and a step of it is being taken.
DirectCalled == dret.how \in {"running", "returned", "raised"}
DirectStep == cpc = "tool" \/ cpc' = "tool" \/ dret' # dret

\* C24: direct_tool_call never ends by raising; it enters tool.run at most
\* once, and not at all for a tool that is not registered; for such a tool
\* and for a tool.run that raised it returns success = false with an error
\* text; and no step of it invokes the Planner, the Synthesizer or the LLM or
\* touches the ConversationMemory.
C24_DirectBypasses ==
    /\ [](DirectCalled =>
            /\ dret.how # "raised"
            /\ Len(task) = 1
            /\ task[1].calls <= 1
            /\ ~get_tool(dret.tool).found =>
                /\ task[1].calls = 0
                /\ dret.how = "returned" /\ ~dret.success /\ dret.error # ""
            /\ (dret.how = "returned" /\ task[1].outcomes # <<>>
                /\ task[1].outcomes[1] \in {"TypeError", "Error"}) =>
                    ~dret.success /\ dret.error # "")
    /\ [][DirectStep =>
            UNCHANGED <<history, appended, mcall, context, stages, planned,
                        sections, completion, response>>]_vars

\* A direct call on an orchestrator that has chatted has returned the
\* failure of a tool.run that raised.
C24_Witness ==
    /\ history # <<>>
    /\ dret.how = "returned"
    /\ ~dret.success
    /\ dret.error = "Error"
    /\ task[1].calls = 1

\* C26: every step of a fallback plan names a tool that register_all_tools
\* registers and an action that this tool accepts.
C26_FallbackExecutable ==
    cpc = "planned" =>
        \A i \in 1..Len(plan.steps) :
            /\ plan.steps[i].tool \in RegisteredTools
            /\ plan.steps[i].action \in ToolActions[plan.steps[i].tool]

\* The codes of a sequence in the order of their first occurrence, each
\* once.
RECURSIVE FirstOccurrences(_, _)
FirstOccurrences(s, seen) ==
    IF s = <<>> THEN <<>>
    ELSE IF Head(s) \in seen THEN FirstOccurrences(Tail(s), seen)
    ELSE <<Head(s)>> \o FirstOccurrences(Tail(s), seen \cup {Head(s)})

\* C27: the symbols of a fallback plan are the three-letter upper-case codes
\* of the query in the order of their first occurrence, without the codes of
\* the stoplist and without a code listed twice, and the symbol of every
\* step that has one is among them.
C27_SymbolsOrderedSet ==
    cpc = "planned" =>
        /\ plan.symbols =
            FirstOccurrences(SelectSeq(FindAll(query, 1), LAMBDA s : s \notin stop_words), {})
        /\ \A i, j \in 1..Len(plan.symbols) : plan.symbols[i] = plan.symbols[j] => i = j
        /\ \A i \in 1..Len(plan.symbols) : plan.symbols[i] \notin stop_words
        /\ \A i \in 1..Len(plan.steps) :
            plan.steps[i].params.symbol.kind = "scalar" =>
                \E k \in 1..Len(plan.symbols) :
                    plan.steps[i].params.symbol.elems = <<plan.symbols[k]>>

\* The line of a turn as C28 describes it, and the lines of the turns of h
\* from position i on, one after the other, separated by newlines.
TurnLine(t) ==
    <<IF t.role = "user" THEN "User: " ELSE "Dexter: ">>
    \o SubSeq(t.content, 1, Min(Len(t.content), ContextChars))
RECURSIVE TurnLines(_, _)
TurnLines(h, i) ==
    IF i > Len(h) THEN <<>>
    ELSE IF i = Len(h) THEN TurnLine(h[i])
    ELSE TurnLine(h[i]) \o <<"\n">> \o TurnLines(h, i + 1)

\* C28: get_context(n), n >= 1, returns the lines of the last
\* min(2n, len(history)) turns in their stored order, one line per turn with
\* the speaker in front and at most 500 characters of the content.
C28_ContextWindow ==
    (cpc = "memory" /\ mcall.op = "get_context" /\ mcall.n >= 1) =>
        context = TurnLines(history, Len(history) - Min(2 * mcall.n, Len(history)) + 1)

\* get_context(n) has been called on a history of more than 2n turns of
\* which one of the last 2n is longer than 500 characters.
C28_Witness ==
    /\ cpc = "memory"
    /\ mcall.op = "get_context"
    /\ mcall.n >= 1
    /\ Len(history) > 2 * mcall.n
    /\ Len(history[Len(history)].content) > ContextChars
    /\ Len(context) = 2 * mcall.n * (ContextChars + 1) + 1

\* The turns at positions 2k - 1 and 2k are the exchange of one request: of
\* a greeting answered before the calls, or of a call that has returned.
ExchangeOfOneRequest(k) ==
    LET u == history[2 * k - 1]
        a == history[2 * k]
    IN /\ u.role = "user"
       /\ a.role = "assistant"
       /\ \/ u.content = <<"h", "i">> /\ a.content = GreetingText
          \/ \E c \in 1..Len(calls) :
                /\ calls[c].pc = "done"
                /\ calls[c].query = u.content
                /\ calls[c].response = a.content

\* C29: in every interleaving of overlapping chat calls the history is made
\* of exchanges, the user turn of a call directly followed by the assistant
\* turn of the same call.
C29_ExchangesAdjacent ==
    cpc = "overlap" =>
        /\ Len(history) % 2 = 0
        /\ \A k \in 1..(Len(history) \div 2) : ExchangeOfOneRequest(k)

\* Two calls with different queries were suspended at the same time, and the
\* one that began second has recorded its exchange first.
C29_Witness ==
    /\ cpc = "overlap"
    /\ Len(calls) >= 2
    /\ calls[1].pc = "done" /\ calls[2].pc = "done"
    /\ calls[1].query = <<"e">> /\ calls[2].query = <<"y">>
    /\ calls[1].at = 0 /\ calls[2].at = 0
    /\ Len(history) = 4
    /\ history[1].content = <<"y">>
    /\ history[3].content = <<"e">>

====
